---- MODULE Spec2Model ----
(***************************************************************************)
(* Control plane of the no-borders software KVM.  Three variants live in   *)
(* the repository and each is modelled as its own state machine:           *)
(*   - the slot model   (KVM.py:  KVMServer / KVMClient),    SpecSlot      *)
(*   - the toggle model (kvm.py:  KVMSwitch),                SpecToggle    *)
(*   - tinyKVM          (tinyKVM.py: Node / Link / Discovery), SpecTiny,   *)
(*     SpecFrame (newline framing) and SpecDisc (discovery datagrams).     *)
(* Further specifications run one part of a variant on its own:            *)
(*   SpecOutsider / SpecDiscFair (discovery with foreign datagrams, with   *)
(*   fair threads), SpecKeys (one key stroke to the three receive loops),  *)
(*   SpecDup (duplicated control records), SpecLink (Link.__init__),       *)
(*   SpecHs (kvm.py handshake), SpecSilent (KVM.py accept loop with a      *)
(*   silent peer), SpecToggleFair (kvm.py with fair threads), SpecPaired   *)
(*   (KVM.py from two connected clients on), SpecChord (the same with the  *)
(*   user's held keys), SpecClick (kvm.py with the clicks on the control   *)
(*   button), SpecVariants (the three variants, one of them running),      *)
(*   SpecCoord (one pointer position from capture to injection), SpecRace  *)
(*   (KVM.py's two control fields, assignment by assignment), SpecHsCtl    *)
(*   (kvm.py handshake with the peer's control button in use).             *)
(* Every specification leaves the variables of the other variants alone.   *)
(***************************************************************************)
EXTENDS Integers, Sequences, FiniteSets, TLC

(* ------------------------------ bounds -------------------------------- *)
\* TCP connections ever opened to the KVM.py server
MaxConns == 3
\* messages a TCP direction buffers before the model stops the sender
MaxInFlight == 2
\* input events (moves, key presses and releases) the server's listeners capture
MaxEvents == 4
\* connections plus input events of one run: a run with more connections
\* is followed over fewer input events
MaxLoad == 5
\* TCP sessions the toggle model's pair establishes
MaxSessions == 2
\* width, in pixels, of the server's and of the clients' screens (slot model)
ServerW == 3
ClientW == 3
\* records a peer sends on a newline-framed stream
MaxMsgs == 3
\* bytes of one record's JSON text
BodyLen == 2
\* width, in pixels, of the widest screen a pointer position is carried to
ScreenMax == 4

\* program constants
KvmRecvSize == 4096
\* tinyKVM.py: `for attempt in range(10)` and `time.sleep(0.5)`, in tenths
MaxAttempts == 10
SleepTenths == 5
RECV_BUFSZ == 1024
TCP_PORT == 50001

VARIABLES
  \* ---- slot model, the shape of the run (fixed by Init) ----
  max_conns,         \* connections this run opens at most
  max_events,        \* input events this run captures at most
  \* ---- slot model, server (KVM.py KVMServer) ----
  backlog,           \* connections completed by the kernel, not yet accept()ed
  acceptPc,          \* 0: accept_clients blocks in accept(); c: in recv() for c
  clients,           \* self.clients (list of sockets, by connection id)
  client_positions,  \* self.client_positions ("none": no entry)
  current_screen,    \* self.current_screen
  active_client,     \* self.active_client (0: None)
  ctrl_pressed,      \* self.ctrl_pressed
  win_pressed,       \* self.win_pressed
  kbd_listening,     \* the pynput keyboard listener is still running
  events,            \* input events captured so far
  handler,           \* handle_client thread of each connection
  srv_closed,        \* the server closed its end of the connection
  \* ---- slot model, transport ----
  c2s,               \* bytes written by the client, not yet read by the server
  s2c,               \* bytes written by the server, not yet read by the client
  \* ---- slot model, clients (KVM.py KVMClient) ----
  cl_pc,             \* where each KVMClient is
  position,          \* self.position
  is_controlling,    \* self.is_controlling
  \* ---- toggle model (kvm.py KVMSwitch), one server and one client ----
  connected,         \* self.connected of each host
  has_control,       \* self.has_control of each host
  session,           \* TCP sessions established so far
  pending,           \* the client's connect() completed, accept() not yet returned
  alive,             \* the transport of the latest session still works
  inbox,             \* records sent to each host and not yet read
  comm,              \* a handle_communication thread of the host is running
  discovering,       \* discovery threads started by start_discovery are running
  wfc_pc,            \* the server's wait_for_client thread
  wcn_pc,            \* the server's wait_for_connection thread (create_ui)
  \* ---- tinyKVM (tinyKVM.py Node), two nodes ----
  role,              \* self.role ("none": None)
  node_has_control,  \* self.has_control
  link,              \* self.link is set
  capture_active,    \* self.capture.active
  overlay_shown,     \* the overlay window is shown
  listening,         \* self.server_sock listens and _accept_client waits
  link_pending,      \* a connect() to the node's server_sock awaits accept()
  conn,              \* the TCP connection between the nodes: none, up, down
  node_inbox,        \* records sent to each node and not yet read
  recv_loop,         \* Link.recv_loop thread of each node
  \* ---- newline framing (kvm.py handle_communication, tinyKVM recv_loop) ----
  sent,              \* the records the peer sent, in order
  wire_k,            \* bytes not yet returned by recv (kvm.py)
  buffer,            \* handle_communication's buffer
  processed,         \* lines handed to process_message, in order
  wire_t,            \* bytes not yet returned by recv (tinyKVM)
  buf,               \* recv_loop's buf
  handled,           \* lines handed to the handler, in order
  loop_t,            \* recv_loop is running, or has left its while loop
  \* ---- key delivery (KVM.py KVMClient.receive_commands) ----
  wire_c,            \* bytes not yet returned by recv (KVM.py client)
  commands,          \* the commands receive_commands decoded, in order
  loop_c,            \* receive_commands is running, or has left its loop
  \* ---- tinyKVM client connect (tinyKVM.py Link.__init__) ----
  attempt,           \* connect() calls made so far
  link_log,          \* the exceptions the retry loop caught, in order
  slept,             \* time spent in time.sleep, in tenths of a second
  sock,              \* self.sock: unconnected or connected
  link_result,       \* the constructor runs, has returned, or has raised
  \* ---- kvm.py handshake (establish_connection, exchange_screen_info) ----
  est_pc,            \* where establish_connection of each host is
  hs_wire,           \* handshake bytes of the peer not yet returned by recv
  hs_data,           \* exchange_screen_info's data
  peer_dims,         \* peer_screen_width/height were set from the record
  \* ---- tinyKVM discovery (tinyKVM.py Discovery), two hosts ----
  own_id,            \* self.own_id of each host
  tcp_port,          \* TCP_PORT of each host
  udp,               \* datagrams sent and not yet received
  peers,             \* self.peers of each host: the value stored per address
  peer_keys,         \* the keys of self.peers in the dict's (insertion) order
  watch,             \* Node._peer_watch of each host: polling, or at the prompt
  \* ---- the user at the keyboard and at the control button ----
  held,              \* the keys the user holds down at the KVM.py server
  clicks,            \* clicks made on the kvm.py control button of each host
  \* ---- pointer coordinates from a sender's to a receiver's screen ----
  geom,              \* the program run and the widths of the two screens
  mm_wire,           \* the x of the mouse-move records on the way
  cursor,            \* the x the receiver's mouse controller was last given
  \* ---- KVM.py: writers of the control fields, statement by statement ----
  mouse_pc,          \* switch_to_client between its two assignments: the socket picked
  hc_pc              \* handle_client of each connection between its two assignments

slotVars == <<max_conns, max_events, backlog, acceptPc, clients, client_positions, current_screen,
              active_client, ctrl_pressed, win_pressed, kbd_listening, events,
              handler,
              srv_closed, c2s, s2c, cl_pc, position, is_controlling>>

toggleVars == <<connected, has_control, session, pending, alive, inbox, comm,
                discovering, wfc_pc, wcn_pc>>

tinyVars == <<role, node_has_control, link, capture_active, overlay_shown,
              listening, link_pending, conn, node_inbox, recv_loop>>

frameVars == <<sent, wire_k, buffer, processed, wire_t, buf, handled, loop_t>>

discVars == <<own_id, tcp_port, udp, peers, peer_keys, watch>>

keyVars == <<wire_c, commands, loop_c>>

linkVars == <<attempt, link_log, slept, sock, link_result>>

hsVars == <<est_pc, hs_wire, hs_data, peer_dims>>

userVars == <<held, clicks>>

coordVars == <<geom, mm_wire, cursor>>

raceVars == <<mouse_pc, hc_pc>>

vars == <<slotVars, toggleVars, tinyVars, frameVars, discVars, keyVars,
          linkVars, hsVars, userVars, coordVars, raceVars>>

\* what the actions of one variant leave alone
notSlot == <<toggleVars, tinyVars, frameVars, discVars, keyVars, linkVars, hsVars, userVars,
            coordVars, raceVars>>
notToggle == <<slotVars, tinyVars, frameVars, discVars, keyVars, linkVars, hsVars, userVars,
            coordVars, raceVars>>
notTiny == <<slotVars, toggleVars, frameVars, discVars, keyVars, linkVars, hsVars, userVars,
            coordVars, raceVars>>
notFrame == <<slotVars, toggleVars, tinyVars, discVars, keyVars, linkVars, hsVars, userVars,
            coordVars, raceVars>>
notDisc == <<slotVars, toggleVars, tinyVars, frameVars, keyVars, linkVars, hsVars, userVars,
            coordVars, raceVars>>
\* what no key delivery step touches
notKeys == <<slotVars, toggleVars, tinyVars, discVars, linkVars, hsVars, userVars,
            coordVars, raceVars>>
notLink == <<slotVars, toggleVars, tinyVars, frameVars, discVars, keyVars, hsVars, userVars,
            coordVars, raceVars>>
\* what no handshake step touches (connected and comm are touched)
notHs == <<slotVars, tinyVars, frameVars, discVars, keyVars, linkVars, userVars,
            coordVars, raceVars>>

(* ======================================================================= *)
(*                      Slot model: KVM.py                                 *)
(* ======================================================================= *)
Conns == 1..MaxConns
Positions == {"left", "right"}
Keys == {"ctrl", "cmd", "left", "right", "up"}

\* A message is the dict handed to json.dumps: its "type" and the fields used.
Msg(t, x, k) == [type |-> t, x |-> x, key |-> k]
InfoMsg(pos) == Msg("client_info", 0, pos)
AckMsg == Msg("connected", 0, "")
SwitchMsg == Msg("switch", 0, "")
MouseMoveMsg(x) == Msg("mouse_move", x, "")
KeyPressMsg(k) == Msg("key_press", 0, k)
KeyReleaseMsg(k) == Msg("key_release", 0, k)
ReturnMsg == Msg("return_to_server", 0, "")
ErrorText == Msg("ERROR:MAX_CLIENTS", 0, "")
Invalid == Msg("invalid", 0, "")

\* json.dumps(data).encode(): the text of one JSON object, with no delimiter
\* after it.  The text is cut in two cells so that a recv() can end inside it.
JsonDumps(m) == <<[part |-> 1, msg |-> m], [part |-> 2, msg |-> m]>>
\* b"ERROR:MAX_CLIENTS": raw bytes, not JSON
RawError == <<[part |-> 0, msg |-> ErrorText]>>

\* json.loads(data): the object if data is exactly the text of one object;
\* a truncated text, trailing data or an empty string raise (Invalid).
JsonLoads(data) ==
  IF Len(data) = 2 /\ data[1].part = 1 /\ data[2].part = 2
  THEN data[1].msg
  ELSE Invalid

Take(s, k) == SubSeq(s, 1, k)
Drop(s, k) == SubSeq(s, k + 1, Len(s))
HasRoom(s) == Len(s) + 2 <= 2 * MaxInFlight

RECURSIVE Remove(_, _)
Remove(s, e) ==
  IF s = <<>> THEN <<>>
  ELSE IF Head(s) = e THEN Tail(s)
  ELSE <<Head(s)>> \o Remove(Tail(s), e)

InSeq(e, s) == \E i \in 1..Len(s) : s[i] = e

\* KVMServer.__init__ and start, with no KVMClient started yet
ServerStarted ==
  /\ backlog = <<>>
  /\ acceptPc = 0
  /\ clients = <<>>
  /\ client_positions = [c \in Conns |-> "none"]
  /\ current_screen = "server"
  /\ active_client = 0
  /\ ctrl_pressed = FALSE
  /\ win_pressed = FALSE
  /\ kbd_listening = TRUE
  /\ events = 0
  /\ handler = [c \in Conns |-> "none"]
  /\ srv_closed = [c \in Conns |-> FALSE]
  /\ c2s = [c \in Conns |-> <<>>]
  /\ s2c = [c \in Conns |-> <<>>]
  /\ cl_pc = [c \in Conns |-> "idle"]
  /\ position = [c \in Conns |-> "right"]
  /\ is_controlling = [c \in Conns |-> FALSE]

InitSlot ==
  /\ max_conns \in 1..MaxConns
  /\ max_events = IF MaxLoad - max_conns < MaxEvents
                  THEN MaxLoad - max_conns ELSE MaxEvents
  /\ ServerStarted

srvCtl == <<current_screen, active_client>>
srvKbd == <<ctrl_pressed, win_pressed, kbd_listening, events>>
runVars == <<max_conns, max_events, notSlot>>
srvSess == <<clients, client_positions, handler, srv_closed>>
srvAcc == <<backlog, acceptPc>>
cliVars == <<cl_pc, position, is_controlling>>

(* ----------------------------- KVMClient ------------------------------ *)
\* KVMClient.connect, up to the recv of the acknowledgment: the TCP connect
\* completes against the listening socket and the client info is sent.
\* Connection ids are handed out in order.
ClientConnect(c, pos) ==
  /\ cl_pc[c] = "idle"
  /\ c <= max_conns
  /\ \A d \in Conns : d < c => cl_pc[d] # "idle"
  /\ position' = [position EXCEPT ![c] = pos]
  /\ backlog' = Append(backlog, c)
  /\ c2s' = [c2s EXCEPT ![c] = JsonDumps(InfoMsg(pos))]
  /\ cl_pc' = [cl_pc EXCEPT ![c] = "await_ack"]
  /\ UNCHANGED <<runVars, acceptPc, srvSess, srvCtl, srvKbd, s2c, is_controlling>>

\* KVMClient.connect, the acknowledgment: one recv(), json.loads, status test.
\* Anything but {"status": "connected"} ends the client (an exception of
\* json.loads leaves connect()).
ClientRecvAck(c, k) ==
  /\ cl_pc[c] = "await_ack"
  /\ k \in 1..Len(s2c[c])
  /\ LET ok == JsonLoads(Take(s2c[c], k)).type = "connected"
     IN /\ s2c' = [s2c EXCEPT ![c] = IF ok THEN Drop(s2c[c], k) ELSE <<>>]
        /\ cl_pc' = [cl_pc EXCEPT ![c] = IF ok THEN "receiving" ELSE "stopped"]
  /\ UNCHANGED <<runVars, srvAcc, srvSess, srvCtl, srvKbd, c2s, position,
                 is_controlling>>

\* x = int(cmd.get("x") * self.screen_width), the server having sent
\* nx / ServerW (exact arithmetic; int() truncates).
ClientX(nx) == (nx * ClientW) \div ServerW

\* the edge test of receive_commands' mouse_move branch
AtReturnEdge(pos, x) ==
  \/ pos = "right" /\ x >= ClientW - 1
  \/ pos = "left" /\ x <= 0

\* KVMClient.receive_commands: one iteration with data received.  Bytes the
\* other side will never read (no handle_client thread, the client gone) are
\* not kept in the model.
ClientReceive(c, k) ==
  /\ cl_pc[c] = "receiving"
  /\ k \in 1..Len(s2c[c])
  /\ LET cmd == JsonLoads(Take(s2c[c], k))
         back == cmd.type = "mouse_move" /\ AtReturnEdge(position[c], ClientX(cmd.x))
     IN /\ back /\ handler[c] = "running" => HasRoom(c2s[c])
        /\ s2c' = [s2c EXCEPT ![c] =
              IF cmd = Invalid THEN <<>> ELSE Drop(s2c[c], k)]
        /\ cl_pc' = [cl_pc EXCEPT ![c] =
              IF cmd = Invalid THEN "stopped" ELSE "receiving"]
        /\ is_controlling' = [is_controlling EXCEPT ![c] =
              IF cmd.type = "switch" THEN TRUE
              ELSE IF back THEN FALSE
              ELSE @]
        /\ c2s' = [c2s EXCEPT ![c] =
              IF back /\ handler[c] = "running"
              THEN @ \o JsonDumps(ReturnMsg) ELSE @]
  /\ UNCHANGED <<runVars, srvAcc, srvSess, srvCtl, srvKbd, position>>

\* (The server closes a connection only when it rejects it, with the error
\* text still to be read, or after the client has closed: a recv() of the
\* client never returns b"" while the server runs, and the server's own
\* shutdown is outside this model.)

\* KVMClient.stop (Ctrl+C), or main_menu dropping the KVMClient object: the
\* socket is closed and the object's fields are gone.
ClientStop(c) ==
  /\ cl_pc[c] \in {"await_ack", "receiving", "stopped", "silent"}
  /\ cl_pc' = [cl_pc EXCEPT ![c] = "closed"]
  /\ s2c' = [s2c EXCEPT ![c] = <<>>]
  /\ is_controlling' = [is_controlling EXCEPT ![c] = FALSE]
  /\ UNCHANGED <<runVars, srvAcc, srvSess, srvCtl, srvKbd, c2s, position>>

\* send_to_active_client writing to the first connected socket instead of
\* self.active_client
SendToActive_FirstClient(chan, active, cls, m) ==
  IF active # 0 /\ InSeq(active, cls) /\ cl_pc[active] \in {"await_ack", "receiving"}
  THEN [chan EXCEPT ![cls[1]] = @ \o JsonDumps(m)]
  ELSE chan

(* ----------------------------- KVMServer ------------------------------ *)
\* KVMServer.send_to_active_client: json.dumps(data).encode() is written to
\* the active client's socket if it is still in self.clients; every error
\* of send() is swallowed.  Bytes written to a client that reads no more
\* (receive_commands has ended) are never looked at and are not kept.
SendToActive(chan, active, cls, m) ==
  IF active # 0 /\ InSeq(active, cls) /\ cl_pc[active] \in {"await_ack", "receiving"}
  THEN [chan EXCEPT ![active] = @ \o JsonDumps(m)]
  ELSE chan

\* the bound on buffered bytes, for a write that will be kept
CanSend(t) ==
  t # 0 /\ InSeq(t, clients) /\ cl_pc[t] \in {"await_ack", "receiving"}
     => HasRoom(s2c[t])

\* the socket switch_to_client picks: the first entry of client_positions
\* (a dict, in insertion order, which is the order of self.clients) whose
\* position matches; 0 when there is none.
SwitchTarget(pos) ==
  LET hits == {i \in 1..Len(clients) : client_positions[clients[i]] = pos}
  IN IF hits = {} THEN 0
     ELSE clients[CHOOSE i \in hits : \A j \in hits : i <= j]

\* switch_to_client without `self.current_screen = position`
switch_to_client_KeepsScreen(pos) ==
  LET t == SwitchTarget(pos)
  IN IF t = 0
     THEN UNCHANGED <<current_screen, active_client, s2c>>
     ELSE /\ CanSend(t)
          /\ UNCHANGED current_screen
          /\ active_client' = t
          /\ s2c' = SendToActive(s2c, t, clients, SwitchMsg)

\* KVMServer.switch_to_client(position, x, y)
switch_to_client(pos) ==
  LET t == SwitchTarget(pos)
  IN IF t = 0
     THEN UNCHANGED <<current_screen, active_client, s2c>>
     ELSE /\ CanSend(t)
          /\ current_screen' = pos
          /\ active_client' = t
          /\ s2c' = SendToActive(s2c, t, clients, SwitchMsg)

\* KVMServer.return_to_server()
return_to_server ==
  IF current_screen # "server"
  THEN /\ current_screen' = "server"
       /\ active_client' = 0
       /\ CanSend(active_client)
       /\ s2c' = SendToActive(s2c, active_client, clients, ReturnMsg)
  ELSE UNCHANGED <<current_screen, active_client, s2c>>

\* switch_to_any_client without its preference: always the first client
switch_to_any_client_FirstAlways(direction) ==
  IF Len(clients) = 0
  THEN UNCHANGED <<current_screen, active_client, s2c>>
  ELSE switch_to_client(client_positions[clients[1]])

\* KVMServer.switch_to_any_client(direction)
switch_to_any_client(direction) ==
  IF Len(clients) = 0
  THEN UNCHANGED <<current_screen, active_client, s2c>>
  ELSE IF Len(clients) = 1
  THEN switch_to_client(client_positions[clients[1]])
  ELSE LET preferred_pos == IF direction = "left" THEN "left" ELSE "right"
       IN IF SwitchTarget(preferred_pos) # 0
          THEN switch_to_client(preferred_pos)
          ELSE switch_to_client(client_positions[clients[1]])

\* forwarding of a captured event while a client is the current screen
Forward(m) ==
  /\ CanSend(active_client)
  /\ s2c' = SendToActive(s2c, active_client, clients, m)

\* KVMServer.accept_clients: accept() returns a connection.  With `limit`
\* clients held it is sent b"ERROR:MAX_CLIENTS" and closed; otherwise the
\* thread goes on to recv() the client info.
AcceptWithLimit(limit) ==
  /\ acceptPc = 0
  /\ backlog # <<>>
  /\ LET c == Head(backlog)
     IN /\ backlog' = Tail(backlog)
        /\ IF Len(clients) >= limit
           THEN /\ s2c' = [s2c EXCEPT ![c] = @ \o RawError]
                /\ srv_closed' = [srv_closed EXCEPT ![c] = TRUE]
                /\ acceptPc' = 0
           ELSE /\ acceptPc' = c
                /\ UNCHANGED <<s2c, srv_closed>>
  /\ UNCHANGED <<runVars, clients, client_positions, handler, srvCtl, srvKbd, c2s,
                 cliVars>>

\* the limit written as 3: one client too many is let in
Accept_LimitOffByOne == AcceptWithLimit(3)

\* `if len(self.clients) >= 2`
Accept == AcceptWithLimit(2)

\* KVMServer.accept_clients: recv() of the client info, json.loads, then the
\* registration, the acknowledgment and the handle_client thread.  An
\* exception (json.loads) is caught by the loop's except: the socket is
\* neither registered nor closed.
AcceptRegister(k) ==
  /\ acceptPc # 0
  /\ LET c == acceptPc
         client_info == IF k = 0 THEN Invalid ELSE JsonLoads(Take(c2s[c], k))
     IN /\ \/ k \in 1..Len(c2s[c])
           \/ k = 0 /\ c2s[c] = <<>> /\ cl_pc[c] = "closed"
        /\ c2s' = [c2s EXCEPT ![c] =
              IF client_info = Invalid THEN <<>> ELSE Drop(c2s[c], k)]
        /\ acceptPc' = 0
        /\ IF client_info = Invalid
           THEN UNCHANGED <<clients, client_positions, handler, s2c>>
           ELSE /\ client_positions' =
                     [client_positions EXCEPT ![c] = client_info.key]
                /\ clients' = Append(clients, c)
                /\ s2c' = [s2c EXCEPT ![c] = @ \o JsonDumps(AckMsg)]
                /\ handler' = [handler EXCEPT ![c] = "running"]
  /\ UNCHANGED <<runVars, backlog, srv_closed, srvCtl, srvKbd, cliVars>>

\* KVMServer.handle_client, the body of its inner try for the decoded msg:
\* the new current_screen and active_client
handle_client(msg, screen, active) ==
  IF msg.type = "return_to_server"
  THEN [current_screen |-> "server", active_client |-> 0]
  ELSE [current_screen |-> screen, active_client |-> active]

\* KVMServer.handle_client: one iteration with data received.  A chunk that
\* json.loads rejects is dropped by the inner except.
HandleClientRecv(c, k) ==
  /\ handler[c] = "running"
  /\ k \in 1..Len(c2s[c])
  /\ LET msg == JsonLoads(Take(c2s[c], k))
         ctl == handle_client(msg, current_screen, active_client)
     IN /\ c2s' = [c2s EXCEPT ![c] = Drop(c2s[c], k)]
        /\ current_screen' = ctl.current_screen
        /\ active_client' = ctl.active_client
  /\ UNCHANGED <<runVars, srvAcc, srvSess, srvKbd, s2c, cliVars>>

\* KVMServer.handle_client: recv() returns b"" (or raises) because the client
\* closed; the finally block removes the socket and closes it.
HandleClientCleanup(c) ==
  /\ handler[c] = "running"
  /\ c2s[c] = <<>>
  /\ cl_pc[c] = "closed"
  /\ clients' = Remove(clients, c)
  /\ client_positions' = [client_positions EXCEPT ![c] = "none"]
  /\ srv_closed' = [srv_closed EXCEPT ![c] = TRUE]
  /\ handler' = [handler EXCEPT ![c] = "closed"]
  /\ UNCHANGED <<runVars, srvAcc, srvCtl, srvKbd, c2s, s2c, cliVars>>

\* capture_input.on_move(x, y)
OnMove(x) ==
  /\ events < max_events
  /\ events' = events + 1
  /\ IF current_screen = "server"
     THEN IF x >= ServerW - 1 THEN switch_to_client("right")
          ELSE IF x <= 0 THEN switch_to_client("left")
          ELSE UNCHANGED <<current_screen, active_client, s2c>>
     ELSE /\ Forward(MouseMoveMsg(x))
          /\ UNCHANGED <<current_screen, active_client>>
  /\ UNCHANGED <<runVars, ctrl_pressed, win_pressed, kbd_listening, srvAcc, srvSess,
                 c2s, cliVars>>

\* capture_input.on_press(key): the modifier flags, the chord test and the
\* forwarding.  A handled chord returns False, which stops the pynput
\* keyboard listener.
on_press(key) ==
  LET ctrl == ctrl_pressed \/ key = "ctrl"
      win == win_pressed \/ key = "cmd"
      chord == ctrl /\ win /\ key \in {"left", "right", "up"}
  IN /\ ctrl_pressed' = ctrl
     /\ win_pressed' = win
     /\ kbd_listening' = ~chord
     /\ IF chord
        THEN IF key = "up" THEN return_to_server
             ELSE switch_to_any_client(key)
        ELSE IF current_screen # "server"
        THEN /\ Forward(KeyPressMsg(key))
             /\ UNCHANGED <<current_screen, active_client>>
        ELSE UNCHANGED <<current_screen, active_client, s2c>>

\* the keyboard listener calls on_press(key)
OnPress(key) ==
  /\ kbd_listening
  /\ events < max_events
  /\ events' = events + 1
  /\ on_press(key)
  /\ UNCHANGED <<runVars, srvAcc, srvSess, c2s, cliVars>>

\* capture_input.on_release(key)
on_release(key) ==
  /\ ctrl_pressed' = (ctrl_pressed /\ key # "ctrl")
  /\ win_pressed' = (win_pressed /\ key # "cmd")
  /\ IF current_screen # "server"
     THEN Forward(KeyReleaseMsg(key))
     ELSE UNCHANGED s2c
  /\ UNCHANGED <<kbd_listening, current_screen, active_client>>

\* the keyboard listener calls on_release(key)
OnRelease(key) ==
  /\ kbd_listening
  /\ events < max_events
  /\ events' = events + 1
  /\ on_release(key)
  /\ UNCHANGED <<runVars, srvAcc, srvSess, c2s, cliVars>>

NextSlot ==
  \/ \E c \in Conns, pos \in Positions : ClientConnect(c, pos)
  \/ \E c \in Conns, k \in 1..(2 * MaxInFlight + 1) : ClientRecvAck(c, k)
  \/ \E c \in Conns, k \in 1..(2 * MaxInFlight + 1) : ClientReceive(c, k)
  \/ \E c \in Conns : ClientStop(c)
  \/ Accept
  \/ \E k \in 0..(2 * MaxInFlight) : AcceptRegister(k)
  \/ \E c \in Conns, k \in 1..(2 * MaxInFlight) : HandleClientRecv(c, k)
  \/ \E c \in Conns : HandleClientCleanup(c)
  \/ \E x \in 0..(ServerW - 1) : OnMove(x)
  \/ \E key \in Keys : OnPress(key)
  \/ \E key \in Keys : OnRelease(key)

\* the slot model while another variant is the one running
IdleSlot ==
  /\ max_conns = 0 /\ max_events = 0 /\ backlog = <<>> /\ acceptPc = 0
  /\ clients = <<>> /\ client_positions = <<>> /\ current_screen = "server"
  /\ active_client = 0 /\ ctrl_pressed = FALSE /\ win_pressed = FALSE
  /\ kbd_listening = FALSE /\ events = 0 /\ handler = <<>> /\ srv_closed = <<>>
  /\ c2s = <<>> /\ s2c = <<>> /\ cl_pc = <<>> /\ position = <<>>
  /\ is_controlling = <<>>

(* ------------------------- slot model: claims -------------------------- *)
\* the hosts that hold control: the server while current_screen is "server",
\* a connected client while its is_controlling flag is set
Holders ==
  (IF current_screen = "server" THEN {0} ELSE {})
    \cup {c \in Conns : /\ InSeq(c, clients)
                        /\ cl_pc[c] = "receiving"
                        /\ is_controlling[c]}

\* C1: at most one host among the server and its connected clients holds
\* control, in every reachable state.
C1_AtMostOneHolder == Cardinality(Holders) <= 1

\* C4: the server is never in RemoteControl (current_screen # "server") with
\* an active_client that is no member of clients: once handle_client's
\* cleanup has removed the active client the server is back in LocalControl.
C4_NoDeadActiveClient ==
  current_screen # "server" => InSeq(active_client, clients)

\* a connection the accept loop turned away: closed by the server without a
\* handle_client thread ever having run for it
Rejected(c) == srv_closed[c] /\ handler[c] = "none"

\* C7: the server holds at most two sessions; a connection accepted while two
\* are held is sent the rejection and closed in that same step, nothing is
\* registered or started for it, and it is never registered later.
C7_AtMostTwoSessions ==
  /\ [](/\ Len(clients) <= 2
        /\ \A c \in Conns :
             Rejected(c) => /\ ~InSeq(c, clients)
                            /\ client_positions[c] = "none"
                            /\ acceptPc # c
                            /\ cl_pc[c] = "await_ack" => s2c[c] = RawError)
  /\ [][\A c \in Conns :
          (/\ acceptPc = 0
           /\ backlog # <<>>
           /\ Head(backlog) = c
           /\ backlog' = Tail(backlog)
           /\ Len(clients) >= 2)
          => /\ s2c'[c] = s2c[c] \o RawError
             /\ srv_closed'[c]
             /\ acceptPc' = 0
             /\ clients' = clients
             /\ client_positions' = client_positions
             /\ handler' = handler]_vars

\* C7 witness: a third connection was turned away while two sessions are held
C7_Witness ==
  /\ Len(clients) = 2
  /\ \E c \in Conns : Rejected(c) /\ ~InSeq(c, clients)

\* C9: every record is decoded exactly once and the session stays open:
\* receive_commands ends only when the server has closed the connection, and
\* every read of handle_client (all a client ever sends it are
\* return_to_server records) brings the server back to its own screen.
C9_EveryRecordDecoded ==
  [][\A c \in Conns :
       /\ (cl_pc[c] = "receiving" /\ cl_pc'[c] = "stopped") => srv_closed[c]
       /\ (handler[c] = "running" /\ Len(c2s'[c]) < Len(c2s[c]))
             => current_screen' = "server"]_vars

\* the edge on_move sees at x
EdgeOf(x) ==
  IF x >= ServerW - 1 THEN "right" ELSE IF x <= 0 THEN "left" ELSE "none"

\* the client c is connected: registered, and reading its socket
Connected(c) == InSeq(c, clients) /\ cl_pc[c] \in {"await_ack", "receiving"}

\* C15: a move that reaches an edge while the server is in LocalControl and
\* a connected client holds the slot of that edge sends that client exactly
\* one 'switch' record and makes it the current screen; a move made while a
\* client is the current screen, at the same edge coordinate or any other,
\* sends no 'switch': the active client gets it as one 'mouse_move' record.
C15_EdgeSwitchOnce ==
  [][\A x \in 0..(ServerW - 1) :
       OnMove(x) =>
         LET t == SwitchTarget(EdgeOf(x))
         IN  /\ (current_screen = "server" /\ t # 0 /\ Connected(t))
                  => /\ current_screen' = EdgeOf(x)
                     /\ active_client' = t
                     /\ s2c' = [s2c EXCEPT ![t] = @ \o JsonDumps(SwitchMsg)]
             /\ current_screen # "server"
                  => /\ UNCHANGED <<current_screen, active_client>>
                     /\ \A c \in Conns :
                          s2c'[c] = IF c = active_client /\ Connected(c)
                                    THEN s2c[c] \o JsonDumps(MouseMoveMsg(x))
                                    ELSE s2c[c]]_vars

\* two events were captured, both moves to the right edge: the client in
\* the right slot is the current screen and was sent the 'switch' of the
\* first move and then the 'mouse_move' of the second
C15_Witness ==
  /\ events = 2
  /\ current_screen = "right"
  /\ active_client # 0
  /\ LET tail == JsonDumps(SwitchMsg) \o JsonDumps(MouseMoveMsg(ServerW - 1))
     IN  /\ Len(s2c[active_client]) >= Len(tail)
         /\ Drop(s2c[active_client], Len(s2c[active_client]) - Len(tail)) = tail

\* C21: no two connected clients occupy the same slot: the entries of
\* client_positions for two different members of clients differ.
C21_DistinctSlots ==
  \A i, j \in 1..Len(clients) :
    i # j => client_positions[clients[i]] # client_positions[clients[j]]

(* ------------- slot model: a peer that sends no handshake -------------- *)
\* a program other than KVMClient opens a TCP connection to the server's
\* port and writes nothing; it may close the connection later (ClientStop)
SilentConnect(c) ==
  /\ cl_pc[c] = "idle"
  /\ c <= max_conns
  /\ \A d \in Conns : d < c => cl_pc[d] # "idle"
  /\ backlog' = Append(backlog, c)
  /\ cl_pc' = [cl_pc EXCEPT ![c] = "silent"]
  /\ UNCHANGED <<runVars, acceptPc, srvSess, srvCtl, srvKbd, c2s, s2c, position,
                 is_controlling>>

\* the run with MaxConns connections and no input event
InitSilent ==
  /\ max_conns = MaxConns
  /\ max_events = 0
  /\ ServerStarted

\* the accept loop, the clients' connects and their ends
NextSilent ==
  \/ \E c \in Conns : SilentConnect(c)
  \/ \E c \in Conns, pos \in Positions : ClientConnect(c, pos)
  \/ \E c \in Conns, k \in 1..(2 * MaxInFlight + 1) : ClientRecvAck(c, k)
  \/ \E c \in Conns : ClientStop(c)
  \/ Accept
  \/ \E k \in 0..(2 * MaxInFlight) : AcceptRegister(k)
  \/ \E c \in Conns : HandleClientCleanup(c)

\* the accept_clients thread keeps running: it returns from accept() when a
\* connection waits, and from recv() when bytes or the end of the stream
\* are there
AcceptFairness ==
  /\ WF_vars(Accept)
  /\ WF_vars(\E k \in 0..(2 * MaxInFlight) : AcceptRegister(k))

\* C19: the accept loop is never blocked for good by a peer that connects
\* and sends no handshake: the connection of a KVMClient that waits to be
\* accepted is eventually returned by accept(), to be registered or turned
\* away, unless the client gives up by itself.
C19_LaterClientAccepted ==
  \A c \in Conns :
    (cl_pc[c] = "await_ack" /\ InSeq(c, backlog))
      ~> (~InSeq(c, backlog) \/ cl_pc[c] = "closed")

(* ======================================================================= *)
(*                     Toggle model: kvm.py                                *)
(* ======================================================================= *)
\* the two KVMSwitch processes, named by self.mode
Hosts == {"server", "client"}
Peer(n) == IF n = "server" THEN "client" ELSE "server"

InitToggle ==
  /\ connected = [n \in Hosts |-> FALSE]
  /\ has_control = [n \in Hosts |-> FALSE]
  /\ session = 0
  /\ pending = FALSE
  /\ alive = FALSE
  /\ inbox = [n \in Hosts |-> <<>>]
  /\ comm = [n \in Hosts |-> FALSE]
  /\ discovering = [n \in Hosts |-> TRUE]
  /\ wfc_pc = "check"
  /\ wcn_pc = "polling"

\* KVMSwitch.reconnect, with the `self.connected = False` of its callers:
\* the new values of connected, has_control and discovering
reconnect(n) ==
  /\ connected' = [connected EXCEPT ![n] = FALSE]
  /\ has_control' = [has_control EXCEPT ![n] = FALSE]
  /\ discovering' = [discovering EXCEPT ![n] = TRUE]

\* KVMSwitch.send_message(msg): the record reaches the peer's socket; on a
\* dead transport sendall either raises (reconnect) or the bytes are lost.
\* `hc` is has_control as the caller left it.
send_message(n, msg, hc, fails) ==
  IF ~(connected[n] /\ session > 0)
  THEN /\ has_control' = hc
       /\ UNCHANGED <<connected, discovering, inbox>>
  ELSE IF alive
  THEN /\ Len(inbox[Peer(n)]) < MaxInFlight
       /\ inbox' = [inbox EXCEPT ![Peer(n)] = Append(@, msg)]
       /\ has_control' = hc
       /\ UNCHANGED <<connected, discovering>>
  ELSE IF fails
  THEN /\ reconnect(n)
       /\ UNCHANGED inbox
  ELSE /\ has_control' = hc
       /\ UNCHANGED <<connected, discovering, inbox>>

\* KVMSwitch.toggle_control without its `self.has_control = False`
toggle_control_KeepsControl(n, fails) ==
  /\ connected[n]
  /\ has_control[n]
  /\ send_message(n, IF n = "server" THEN "control_request" ELSE "control_release",
                  has_control, fails)
  /\ UNCHANGED <<notToggle, session, pending, alive, comm, wfc_pc, wcn_pc>>

\* KVMSwitch.toggle_control: the host that has control gives it away
toggle_control(n, fails) ==
  /\ connected[n]
  /\ has_control[n]
  /\ send_message(n, IF n = "server" THEN "control_request" ELSE "control_release",
                  [has_control EXCEPT ![n] = FALSE], fails)
  /\ UNCHANGED <<notToggle, session, pending, alive, comm, wfc_pc, wcn_pc>>

\* kvm.py on_key_press with the has_control test left out
on_input_Ungated(fails) ==
  /\ connected["server"]
  /\ send_message("server", "key", has_control, fails)
  /\ UNCHANGED <<notToggle, session, pending, alive, comm, wfc_pc, wcn_pc>>

\* KVMSwitch.on_key_press / on_mouse_move ...: the server forwards a captured
\* event while it is connected and does not have control
on_input(fails) ==
  /\ connected["server"]
  /\ ~has_control["server"]
  /\ send_message("server", "key", has_control, fails)
  /\ UNCHANGED <<notToggle, session, pending, alive, comm, wfc_pc, wcn_pc>>

\* process_message with a control_release that flips has_control on the
\* server
process_message_ReleaseFlips(n, type) ==
  IF type = "control_request" THEN (n = "client")
  ELSE IF type = "control_release" THEN (IF n = "server" THEN ~has_control[n]
                                         ELSE FALSE)
  ELSE has_control[n]

\* KVMSwitch.process_message: has_control after the record
process_message(n, type) ==
  IF type = "control_request" THEN (n = "client")
  ELSE IF type = "control_release" THEN (n = "server")
  ELSE has_control[n]

\* KVMSwitch.handle_communication: a line is complete in the buffer and is
\* handed to process_message
HandleCommunication(n) ==
  /\ comm[n]
  /\ connected[n]
  /\ inbox[n] # <<>>
  /\ has_control' = [has_control EXCEPT ![n] = process_message(n, Head(inbox[n]))]
  /\ inbox' = [inbox EXCEPT ![n] = Tail(@)]
  /\ UNCHANGED <<notToggle, connected, session, pending, alive, comm, discovering, wfc_pc,
                 wcn_pc>>

\* KVMSwitch.handle_communication: recv returns b"" or raises; the except
\* clause clears connected, calls reconnect and leaves the loop
CommFailure(n) ==
  /\ comm[n]
  /\ connected[n]
  /\ ~alive
  /\ reconnect(n)
  /\ comm' = [comm EXCEPT ![n] = FALSE]
  /\ UNCHANGED <<notToggle, session, pending, alive, inbox, wfc_pc, wcn_pc>>

\* KVMSwitch.handle_communication: the loop condition finds connected False
\* (send_message has called reconnect meanwhile)
CommExit(n) ==
  /\ comm[n]
  /\ ~connected[n]
  /\ comm' = [comm EXCEPT ![n] = FALSE]
  /\ UNCHANGED <<notToggle, connected, has_control, session, pending, alive, inbox,
                 discovering, wfc_pc, wcn_pc>>

\* the network or the peer process breaks the session's transport
ChannelFails ==
  /\ session > 0
  /\ alive
  /\ alive' = FALSE
  /\ UNCHANGED <<notToggle, connected, has_control, session, pending, inbox, comm,
                 discovering, wfc_pc, wcn_pc>>

\* KVMSwitch.wait_for_client: the loop test `while self.running and not
\* self.connected`
WaitForClientTest ==
  /\ wfc_pc = "check"
  /\ wfc_pc' = IF connected["server"] THEN "exited" ELSE "accept"
  /\ UNCHANGED <<notToggle, connected, has_control, session, pending, alive, inbox, comm,
                 discovering, wcn_pc>>

\* KVMSwitch.establish_connection (server): accept() times out after 10 s;
\* the except clause clears connected and calls reconnect
AcceptTimeout ==
  /\ wfc_pc = "accept"
  /\ ~pending
  /\ reconnect("server")
  /\ wfc_pc' = "check"
  /\ UNCHANGED <<notToggle, session, pending, alive, inbox, comm, wcn_pc>>

\* KVMSwitch.establish_connection (server): accept() returns the client's
\* connection; connected is set and the communication thread started
ServerAccept ==
  /\ wfc_pc = "accept"
  /\ pending
  /\ pending' = FALSE
  /\ connected' = [connected EXCEPT !["server"] = TRUE]
  /\ comm' = [comm EXCEPT !["server"] = TRUE]
  /\ wfc_pc' = "check"
  /\ UNCHANGED <<notToggle, has_control, session, alive, inbox, discovering, wcn_pc>>

\* KVMSwitch.listen_for_peers / establish_connection (client): a beacon of
\* the server was heard and approved, connect() reaches the listening socket
ClientEstablish ==
  /\ discovering["client"]
  /\ discovering["server"]
  /\ ~connected["client"]
  /\ wfc_pc = "accept"
  /\ ~pending
  /\ session < MaxSessions
  /\ session' = session + 1
  /\ pending' = TRUE
  /\ alive' = TRUE
  /\ inbox' = [n \in Hosts |-> <<>>]
  /\ connected' = [connected EXCEPT !["client"] = TRUE]
  /\ comm' = [comm EXCEPT !["client"] = TRUE]
  /\ discovering' = [discovering EXCEPT !["client"] = FALSE]
  /\ UNCHANGED <<notToggle, has_control, wfc_pc, wcn_pc>>

\* KVMSwitch.broadcast_presence: the loop test finds connected True and the
\* thread ends
BroadcastExit ==
  /\ discovering["server"]
  /\ connected["server"]
  /\ discovering' = [discovering EXCEPT !["server"] = FALSE]
  /\ UNCHANGED <<notToggle, connected, has_control, session, pending, alive, inbox, comm,
                 wfc_pc, wcn_pc>>

\* create_ui.wait_for_connection (server): the polling loop sees connected
WaitForConnectionSees ==
  /\ wcn_pc = "polling"
  /\ connected["server"]
  /\ wcn_pc' = "saw_connected"
  /\ UNCHANGED <<notToggle, connected, has_control, session, pending, alive, inbox, comm,
                 discovering, wfc_pc>>

\* create_ui.wait_for_connection (server): `self.has_control = True`
WaitForConnectionSets ==
  /\ wcn_pc = "saw_connected"
  /\ wcn_pc' = "done"
  /\ has_control' = [has_control EXCEPT !["server"] = TRUE]
  /\ UNCHANGED <<notToggle, connected, session, pending, alive, inbox, comm, discovering,
                 wfc_pc>>

NextToggle ==
  \/ \E n \in Hosts, fails \in BOOLEAN : toggle_control(n, fails)
  \/ \E fails \in BOOLEAN : on_input(fails)
  \/ \E n \in Hosts : HandleCommunication(n)
  \/ \E n \in Hosts : CommFailure(n)
  \/ \E n \in Hosts : CommExit(n)
  \/ ChannelFails
  \/ WaitForClientTest
  \/ AcceptTimeout
  \/ ServerAccept
  \/ ClientEstablish
  \/ BroadcastExit
  \/ WaitForConnectionSees
  \/ WaitForConnectionSets

\* the toggle model while another variant is the one running
IdleToggle ==
  /\ connected = <<>> /\ has_control = <<>> /\ session = 0 /\ pending = FALSE
  /\ alive = FALSE /\ inbox = <<>> /\ comm = <<>> /\ discovering = <<>>
  /\ wfc_pc = "exited" /\ wcn_pc = "done"

(* ------------------------ toggle model: claims ------------------------- *)
\* C2: for a connected server/client pair the two has_control flags are never
\* both True.
C2_NeverBothControl ==
  (connected["server"] /\ connected["client"])
     => ~(has_control["server"] /\ has_control["client"])

\* C2 witness: control was handed to the client of a connected pair
C2_Witness ==
  /\ connected["server"] /\ connected["client"]
  /\ has_control["client"] /\ ~has_control["server"]
  /\ wcn_pc = "done"

\* C5: when the server detects the channel failure while the client holds
\* control, the step that runs reconnect() leaves the server in LocalControl
\* (has_control True).
C5_ServerRevertsToLocal ==
  [][(connected["server"] /\ ~connected'["server"] /\ has_control["client"])
        => has_control'["server"]]_vars

\* both processes keep running and the network keeps delivering: every
\* thread that can take a step eventually takes it, and a client that can
\* reach a listening server again and again eventually connects.  What the
\* users do (toggle_control, input) and when the channel breaks is free.
ToggleFairness ==
  /\ \A n \in Hosts : WF_vars(HandleCommunication(n))
  /\ \A n \in Hosts : WF_vars(CommFailure(n))
  /\ \A n \in Hosts : WF_vars(CommExit(n))
  /\ WF_vars(WaitForClientTest)
  /\ WF_vars(ServerAccept)
  /\ SF_vars(ClientEstablish)
  /\ WF_vars(BroadcastExit)
  /\ WF_vars(WaitForConnectionSees)
  /\ WF_vars(WaitForConnectionSets)

\* C20: after the channel of an established session (connected on both
\* hosts) has closed unexpectedly, a new session is eventually established:
\* connected is True again on server and client, on a later connection.
C20_SessionReestablished ==
  \A k \in 1..(MaxSessions - 1) :
    (session = k /\ connected["server"] /\ connected["client"] /\ ~alive)
      ~> (session > k /\ connected["server"] /\ connected["client"])

(* ======================================================================= *)
(*                     tinyKVM model: tinyKVM.py Node                      *)
(* Two nodes that have discovered each other.  The operator of each node   *)
(* answers the role prompt; a client node connects to the server node's    *)
(* listening socket.                                                       *)
(* ======================================================================= *)

Nodes == {"a", "b"}
Other(n) == IF n = "a" THEN "b" ELSE "a"

\* the "t" field of the records Link.send writes
CaptureTypes == {"kp", "mm"}

\* Node.__init__: no role, no link, has_control True, capture inactive,
\* overlay withdrawn
InitTiny ==
  /\ role = [n \in Nodes |-> "none"]
  /\ node_has_control = [n \in Nodes |-> TRUE]
  /\ link = [n \in Nodes |-> FALSE]
  /\ capture_active = [n \in Nodes |-> FALSE]
  /\ overlay_shown = [n \in Nodes |-> FALSE]
  /\ listening = [n \in Nodes |-> FALSE]
  /\ link_pending = [n \in Nodes |-> FALSE]
  /\ conn = "none"
  /\ node_inbox = [n \in Nodes |-> <<>>]
  /\ recv_loop = [n \in Nodes |-> "none"]

\* room for k more records on the way to node n
InboxRoom(n, k) == Len(node_inbox[n]) + k <= 2 * MaxInFlight

\* Link.send from node n, k times: sendall on a working connection queues
\* the record for the peer; on a broken one the bytes are lost (or sendall
\* raises, which leaves the node's fields as they are).  Records nobody
\* will read are not kept.
LinkSend(inb, n, typ, k) ==
  IF conn = "up" /\ recv_loop[Other(n)] # "ended"
  THEN [inb EXCEPT ![Other(n)] = @ \o [i \in 1..k |-> typ]]
  ELSE inb

\* Node._apply_control with the role r and flag hc; the new capture.active
ApplyCapture(r, hc) == r = "server" /\ ~hc

\* Node._peer_watch once a peer is known and the operator has answered r.
\* ok: the client's connect() succeeded, which needs the peer's server_sock.
PeerWatch(n, r, ok) ==
  /\ role[n] = "none"
  /\ role' = [role EXCEPT ![n] = r]
  /\ IF r = "server"
     THEN \* listen, spawn _accept_client, _apply_control without a link
          /\ ok
          /\ listening' = [listening EXCEPT ![n] = TRUE]
          /\ capture_active' = [capture_active EXCEPT ![n] = ApplyCapture(r, node_has_control[n])]
          /\ overlay_shown' = [overlay_shown EXCEPT ![n] = ApplyCapture(r, node_has_control[n])]
          /\ UNCHANGED <<link, link_pending, conn, node_inbox, recv_loop>>
     ELSE IF ok
     THEN \* Link(ip, port) connected; recv_loop spawned; _apply_control
          \* sends "ctrl" on the new link
          /\ role[Other(n)] = "server" /\ conn = "none"
          /\ link' = [link EXCEPT ![n] = TRUE]
          /\ link_pending' = [link_pending EXCEPT ![Other(n)] = TRUE]
          /\ conn' = "up"
          /\ recv_loop' = [recv_loop EXCEPT ![n] = "running"]
          /\ capture_active' = [capture_active EXCEPT ![n] = FALSE]
          /\ overlay_shown' = [overlay_shown EXCEPT ![n] = FALSE]
          /\ node_inbox' = [node_inbox EXCEPT ![Other(n)] = @ \o <<"ctrl">>]
          /\ UNCHANGED listening
     ELSE \* ten refused attempts, then the bare raise ends the thread
          /\ role[Other(n)] # "server"
          /\ UNCHANGED <<link, link_pending, conn, node_inbox, recv_loop,
                         capture_active, overlay_shown, listening>>
  /\ UNCHANGED <<notTiny, node_has_control>>

\* Node._accept_client: accept() returns the client's connection
AcceptClient(n) ==
  /\ listening[n] /\ link_pending[n]
  /\ link' = [link EXCEPT ![n] = TRUE]
  /\ recv_loop' = [recv_loop EXCEPT ![n] = "running"]
  /\ listening' = [listening EXCEPT ![n] = FALSE]
  /\ link_pending' = [link_pending EXCEPT ![n] = FALSE]
  /\ UNCHANGED <<notTiny, role, node_has_control, capture_active, overlay_shown,
                 conn, node_inbox>>

\* Node.toggle (the button or the overlay clicked): flip has_control,
\* _apply_control, and "ctrl" is sent by _apply_control and again by toggle
toggle(n) ==
  /\ role[n] # "none"
  /\ InboxRoom(Other(n), 2)
  /\ node_has_control' = [node_has_control EXCEPT ![n] = ~@]
  /\ capture_active' = [capture_active EXCEPT ![n] = ApplyCapture(role[n], ~node_has_control[n])]
  /\ overlay_shown' = [overlay_shown EXCEPT ![n] = ApplyCapture(role[n], ~node_has_control[n])]
  /\ node_inbox' = IF link[n] THEN LinkSend(node_inbox, n, "ctrl", 2) ELSE node_inbox
  /\ UNCHANGED <<notTiny, role, link, listening, link_pending, conn, recv_loop>>

\* an InputCapture callback (_kp, _mm, ...) -> Node._send_input
SendInput(n, typ) ==
  /\ capture_active[n]
  /\ InboxRoom(Other(n), 1)
  /\ node_inbox' = IF role[n] = "server" /\ ~node_has_control[n] /\ link[n]
                   THEN LinkSend(node_inbox, n, typ, 1)
                   ELSE node_inbox
  /\ UNCHANGED <<notTiny, role, node_has_control, link, capture_active,
                 overlay_shown, listening, link_pending, conn, recv_loop>>

\* Link.recv_loop reads one record and calls InputInject.handle, which has
\* branches for kp, kr, mm, mc and ms only: "ctrl" changes nothing
RecvLoopHandle(n) ==
  /\ recv_loop[n] = "running" /\ node_inbox[n] # <<>>
  /\ node_inbox' = [node_inbox EXCEPT ![n] = Tail(@)]
  /\ UNCHANGED <<notTiny, role, node_has_control, link, capture_active,
                 overlay_shown, listening, link_pending, conn, recv_loop>>

\* Link.recv_loop: recv returns b"" or raises; the loop breaks and the
\* thread ends
RecvLoopBreak(n) ==
  /\ recv_loop[n] = "running" /\ conn = "down" /\ node_inbox[n] = <<>>
  /\ recv_loop' = [recv_loop EXCEPT ![n] = "ended"]
  /\ UNCHANGED <<notTiny, role, node_has_control, link, capture_active,
                 overlay_shown, listening, link_pending, conn, node_inbox>>

\* the connection breaks: the peer process exits or the network fails
LinkBreaks ==
  /\ conn = "up"
  /\ conn' = "down"
  /\ UNCHANGED <<notTiny, role, node_has_control, link, capture_active,
                 overlay_shown, listening, link_pending, node_inbox, recv_loop>>

NextTiny ==
  \/ \E n \in Nodes, r \in {"server", "client"}, ok \in BOOLEAN : PeerWatch(n, r, ok)
  \/ \E n \in Nodes : AcceptClient(n)
  \/ \E n \in Nodes : toggle(n)
  \/ \E n \in Nodes, typ \in CaptureTypes : SendInput(n, typ)
  \/ \E n \in Nodes : RecvLoopHandle(n)
  \/ \E n \in Nodes : RecvLoopBreak(n)
  \/ LinkBreaks

(* ------------------------ tinyKVM model: claims ------------------------ *)

\* a server node and a client node joined by a link
Linked(sv, cl) ==
  role[sv] = "server" /\ role[cl] = "client" /\ link[sv] /\ link[cl]

\* C3: for a linked server node and client node the two has_control flags
\* are never both True.
C3_NeverBothControl ==
  \A sv \in Nodes :
    Linked(sv, Other(sv)) => ~(node_has_control[sv] /\ node_has_control[Other(sv)])

\* C6: when the server node's receive loop finds the link closed or broken
\* while has_control is False, the node is back at has_control True with
\* capture stopped.
C6_RevertsOnDeadLink ==
  [][\A n \in Nodes :
       (role[n] = "server" /\ ~node_has_control[n]
        /\ recv_loop[n] = "running" /\ recv_loop'[n] = "ended")
       => (node_has_control'[n] /\ ~capture_active'[n])]_vars

(* ======================================================================= *)
(*      Newline framing: kvm.py handle_communication, tinyKVM recv_loop    *)
(* A peer writes records, each json.dumps(...) + "\n", on a TCP stream;    *)
(* recv returns the stream in chunks of any size up to its argument.       *)
(* ======================================================================= *)

Records == {"mouse", "key"}
\* the two records of one key stroke on 'a'
KeyRecords == {"press_a", "release_a"}

\* the byte b"\n"
Newline == [rec |-> "", part |-> 0]

\* json.dumps(msg).encode(): BodyLen bytes, none of them a newline
Dumps(m) == [i \in 1..BodyLen |-> [rec |-> m, part |-> i]]

\* what send_message / Link.send write for one record
Payload(m) == Dumps(m) \o <<Newline>>

\* json.loads(line): the record when line is one whole JSON text
Loads(line) ==
  IF \E m \in Records \cup KeyRecords : line = Dumps(m)
  THEN (CHOOSE m \in Records \cup KeyRecords : line = Dumps(m))
  ELSE "invalid"

Min(a, b) == IF a <= b THEN a ELSE b

\* while b"\n" in buffer: line, buffer = buffer.split(b"\n", 1)
RECURSIVE SplitLines(_)
SplitLines(b) ==
  IF \A i \in 1..Len(b) : b[i] # Newline
  THEN [lines |-> <<>>, rest |-> b]
  ELSE LET i == CHOOSE j \in 1..Len(b) :
                  b[j] = Newline /\ \A q \in 1..(j - 1) : b[q] # Newline
           r == SplitLines(Drop(b, i))
       IN  [lines |-> <<Take(b, i - 1)>> \o r.lines, rest |-> r.rest]

\* a loop body that keeps only the last chunk: buffer = chunk
Feed_DropsFragment(bufv, chunk) == SplitLines(chunk)

\* buffer += chunk, then the split loop
Feed(bufv, chunk) == SplitLines(bufv \o chunk)

\* one pass of recv_loop's body: every line goes through json.loads and
\* then to the handler; an exception ends the loop
RecvLoopBody(bufv, chunk) ==
  LET r == Feed(bufv, chunk)
      msgs == [i \in 1..Len(r.lines) |-> Loads(r.lines[i])]
      bad == {i \in 1..Len(msgs) : msgs[i] = "invalid"}
  IN  IF bad = {}
      THEN [msgs |-> msgs, rest |-> r.rest, ok |-> TRUE]
      ELSE [msgs |-> Take(msgs, (CHOOSE i \in bad : \A j \in bad : i <= j) - 1),
            rest |-> <<>>, ok |-> FALSE]

InitFrame ==
  /\ sent = <<>>
  /\ wire_k = <<>> /\ buffer = <<>> /\ processed = <<>>
  /\ wire_t = <<>> /\ buf = <<>> /\ handled = <<>>
  /\ loop_t = "running"

\* the peer sends one more record to both receivers
PeerSends(m) ==
  /\ Len(sent) < MaxMsgs
  /\ sent' = Append(sent, m)
  /\ wire_k' = wire_k \o Payload(m)
  /\ wire_t' = wire_t \o Payload(m)
  /\ UNCHANGED <<notFrame, buffer, processed, buf, handled, loop_t>>

\* kvm.py handle_communication: one recv(4096) of k bytes and the split
\* loop, which hands every line to process_message
HandleCommunicationRecv(k) ==
  /\ k \in 1..Min(KvmRecvSize, Len(wire_k))
  /\ LET r == Feed(buffer, Take(wire_k, k))
     IN  /\ buffer' = r.rest
         /\ processed' = processed \o r.lines
  /\ wire_k' = Drop(wire_k, k)
  /\ UNCHANGED <<notFrame, sent, wire_t, buf, handled, loop_t>>

\* tinyKVM Link.recv_loop: one recv(RECV_BUFSZ) of k bytes and the body
RecvLoopRecv(k) ==
  /\ loop_t = "running"
  /\ k \in 1..Min(RECV_BUFSZ, Len(wire_t))
  /\ LET r == RecvLoopBody(buf, Take(wire_t, k))
     IN  /\ buf' = r.rest
         /\ handled' = handled \o r.msgs
         /\ loop_t' = IF r.ok THEN "running" ELSE "ended"
  /\ wire_t' = Drop(wire_t, k)
  /\ UNCHANGED <<notFrame, sent, wire_k, buffer, processed>>

NextFrame ==
  \/ \E m \in Records : PeerSends(m)
  \/ \E k \in 1..(MaxMsgs * (BodyLen + 1)) : HandleCommunicationRecv(k)
  \/ \E k \in 1..(MaxMsgs * (BodyLen + 1)) : RecvLoopRecv(k)

(* ---------------------- newline framing: claims ------------------------ *)

\* the lines process_message gets when every record arrives in a chunk of
\* its own
RECURSIVE OwnChunkLines(_, _)
OwnChunkLines(bufv, ms) ==
  IF ms = <<>> THEN <<>>
  ELSE LET r == Feed(bufv, Payload(Head(ms)))
       IN  r.lines \o OwnChunkLines(r.rest, Tail(ms))

\* the records the handler gets when every record arrives in a chunk of
\* its own
RECURSIVE OwnChunkMsgs(_, _)
OwnChunkMsgs(bufv, ms) ==
  IF ms = <<>> THEN <<>>
  ELSE LET r == RecvLoopBody(bufv, Payload(Head(ms)))
       IN  IF r.ok THEN r.msgs \o OwnChunkMsgs(r.rest, Tail(ms)) ELSE r.msgs

IsPrefix(p, q) == Len(p) <= Len(q) /\ p = Take(q, Len(p))

\* C8: however recv cuts the stream into chunks, both receive loops hand
\* their handler the sequence of messages it gets when each message comes
\* in a chunk of its own: a prefix of it while bytes are on the way, all of
\* it once they are read, and recv_loop never leaves its loop.
C8_ChunkingInvisible ==
  /\ IsPrefix(processed, OwnChunkLines(<<>>, sent))
  /\ IsPrefix(handled, OwnChunkMsgs(<<>>, sent))
  /\ wire_k = <<>> => processed = OwnChunkLines(<<>>, sent)
  /\ wire_t = <<>> => handled = OwnChunkMsgs(<<>>, sent)
  /\ loop_t = "running"

\* every record is sent; both loops have delivered two records and hold a
\* fragment of the third, whose rest is still on the way
C8_Witness ==
  /\ Len(sent) = MaxMsgs
  /\ Len(processed) >= 2 /\ buffer # <<>> /\ wire_k # <<>>
  /\ Len(handled) >= 2 /\ buf # <<>> /\ wire_t # <<>>

(* ======================================================================= *)
(*               tinyKVM discovery: tinyKVM.py Discovery                   *)
(* Two hosts on one /24, each running Discovery, and one more address on   *)
(* the network that sends datagrams of its own making.  A datagram is a    *)
(* byte sequence with the address it came from.                            *)
(* ======================================================================= *)

DiscHosts == {"h1", "h2"}
\* an address that runs some other program
Outsider == "h9"
Addrs == DiscHosts \cup {Outsider}

\* b"TINYKVM"
MAGIC == <<84, 73, 78, 89, 75, 86, 77>>
\* "changeMe".encode()
TOKEN == <<99, 104, 97, 110, 103, 101, 77, 101>>

\* gen_id() values the hosts may draw: four bytes
IdBytes == {1, 195}
Ids == [1..4 -> IdBytes]
\* the ids the two hosts draw in the runs explored
SampleIds == {i \in Ids : i[2] = i[3] /\ i[3] = i[4]}
Ports == {TCP_PORT, 258}

\* struct.pack("!H", p) and struct.unpack("!H", b)[0]
Pack(p) == <<(p \div 256) % 256, p % 256>>
Unpack(b) == b[1] * 256 + b[2]

\* the Python slice r[a:b]
Slice(r, a, b) == SubSeq(r, a + 1, Min(b, Len(r)))

StartsWith(r, pre) == Len(r) >= Len(pre) /\ Take(r, Len(pre)) = pre
EndsWith(r, suf) == Len(r) >= Len(suf) /\ Drop(r, Len(r) - Len(suf)) = suf

NoPeer == [tcp_port |-> 0 - 1, peer_id |-> <<>>]

\* Discovery.__init__ on both hosts
InitDisc ==
  /\ own_id \in [DiscHosts -> SampleIds]
  /\ tcp_port \in [DiscHosts -> Ports]
  /\ udp = {}
  /\ peers = [h \in DiscHosts |-> [ip \in Addrs |-> NoPeer]]
  /\ peer_keys = [h \in DiscHosts |-> <<>>]
  /\ watch = [h \in DiscHosts |-> "polling"]

\* msg = MAGIC + self.own_id + struct.pack("!H", TCP_PORT) + TOKEN.encode()
Beacon(h) == MAGIC \o own_id[h] \o Pack(tcp_port[h]) \o TOKEN

Datagram(h, d) == [dst |-> d, ip |-> h, data |-> Beacon(h)]

\* _send_loop: one broadcast, which every socket bound to UDP_PORT gets,
\* the sender's own included
SendLoop(h) ==
  /\ udp' = udp \cup {Datagram(h, d) : d \in DiscHosts}
  /\ udp' # udp
  /\ UNCHANGED <<notDisc, own_id, tcp_port, peers, peer_keys, watch>>

\* _unicast_loop: one round over the /24, skipping the own address
UnicastLoop(h) ==
  /\ udp' = udp \cup {Datagram(h, d) : d \in DiscHosts \ {h}}
  /\ udp' # udp
  /\ UNCHANGED <<notDisc, own_id, tcp_port, peers, peer_keys, watch>>

\* what the outsider puts after MAGIC, id and port: the hosts' token, a
\* token of the same length, and tokens that end or start with TOKEN
WrongToken == <<120, 104, 97, 110, 103, 101, 77, 101>>
OutsiderTokens == {TOKEN, WrongToken, <<120>> \o TOKEN, TOKEN \o <<120>>}
OutsiderId == <<7, 7, 7, 7>>

\* a datagram with a valid MAGIC prefix from the outsider to the host d;
\* one of them is on the way at a time
OutsiderSends(d, tok) ==
  /\ \A dg \in udp : dg.ip # Outsider
  /\ udp' = udp \cup {[dst |-> d, ip |-> Outsider,
                       data |-> MAGIC \o OutsiderId \o Pack(TCP_PORT) \o tok]}
  /\ UNCHANGED <<notDisc, own_id, tcp_port, peers, peer_keys, watch>>

\* Listened with the token test reading the token one byte late, the way
\* peer_id is read
Listened_TokenOneByteLate(h, ip, r) ==
  LET peer_id == Slice(r, 8, 12)
  IN  IF Len(r) < Len(MAGIC) + 6 + Len(TOKEN) THEN NoPeer
      ELSE IF ~StartsWith(r, MAGIC) THEN NoPeer
      ELSE IF ip = h /\ peer_id = own_id[h] THEN NoPeer
      ELSE IF Slice(r, 14, Len(r)) # TOKEN THEN NoPeer
      ELSE [tcp_port |-> Unpack(Slice(r, 12, 14)), peer_id |-> peer_id]

\* the entry _listen stores for the datagram r from ip, or NoPeer when one
\* of its tests says continue
Listened(h, ip, r) ==
  LET peer_id == Slice(r, 8, 12)
  IN  IF Len(r) < Len(MAGIC) + 6 + Len(TOKEN) THEN NoPeer
      ELSE IF ~StartsWith(r, MAGIC) THEN NoPeer
      ELSE IF ip = h /\ peer_id = own_id[h] THEN NoPeer
      ELSE IF ~EndsWith(r, TOKEN) THEN NoPeer
      ELSE [tcp_port |-> Unpack(Slice(r, 12, 14)), peer_id |-> peer_id]

\* _listen: recvfrom returns the datagram dg, then the body of the loop.
\* self.peers[ip] = ... appends a new key and keeps the place of an old one.
Receive(h, dg) ==
  /\ dg \in udp
  /\ dg.dst = h
  /\ udp' = udp \ {dg}
  /\ LET e == Listened(h, dg.ip, dg.data)
     IN  IF e = NoPeer
         THEN UNCHANGED <<peers, peer_keys>>
         ELSE /\ peers' = [peers EXCEPT ![h][dg.ip] = e]
              /\ peer_keys' = IF InSeq(dg.ip, peer_keys[h]) THEN peer_keys
                              ELSE [peer_keys EXCEPT ![h] = Append(@, dg.ip)]
  /\ UNCHANGED <<notDisc, own_id, tcp_port, watch>>

\* _listen: one recvfrom and the body of the loop
Listen(h) == \E dg \in udp : Receive(h, dg)

\* Node._peer_watch: one pass of its loop while self.role is None and the
\* table is not empty.  The own address as peers[0] is deleted; any other
\* one brings up the role prompt, after which the table is not read again.
PeerWatchPoll(h) ==
  /\ watch[h] = "polling"
  /\ peer_keys[h] # <<>>
  /\ IF Head(peer_keys[h]) = h
     THEN /\ peers' = [peers EXCEPT ![h][h] = NoPeer]
          /\ peer_keys' = [peer_keys EXCEPT ![h] = Tail(@)]
          /\ UNCHANGED watch
     ELSE /\ watch' = [watch EXCEPT ![h] = "asked"]
          /\ UNCHANGED <<peers, peer_keys>>
  /\ UNCHANGED <<notDisc, own_id, tcp_port, udp>>

\* the two hosts among themselves
NextDisc ==
  \/ \E h \in DiscHosts : SendLoop(h)
  \/ \E h \in DiscHosts : UnicastLoop(h)
  \/ \E h \in DiscHosts : Listen(h)
  \/ \E h \in DiscHosts : PeerWatchPoll(h)

\* the two hosts and the outsider
NextOutsider ==
  \/ \E h \in DiscHosts : SendLoop(h)
  \/ \E h \in DiscHosts : UnicastLoop(h)
  \/ \E d \in DiscHosts, tok \in OutsiderTokens : OutsiderSends(d, tok)
  \/ \E h \in DiscHosts : Listen(h)
  \/ \E h \in DiscHosts : PeerWatchPoll(h)

\* the runs with the outsider: one draw of the two ids, the port as shipped
InitOutsider ==
  /\ InitDisc
  /\ own_id = [h \in DiscHosts |-> IF h = "h1" THEN <<1, 1, 1, 1>>
                                    ELSE <<195, 195, 195, 195>>]
  /\ tcp_port = [h \in DiscHosts |-> TCP_PORT]

(* ------------------------ discovery: claims ---------------------------- *)

\* C10: the (tcp_port, peer_id) that _listen stores for a beacon is the
\* TCP port and the peer id its sender encoded into it.
C10_BeaconRoundTrip ==
  \A h \in DiscHosts, ip \in DiscHosts :
    peers[h][ip] # NoPeer
      => /\ peers[h][ip].tcp_port = tcp_port[ip]
         /\ peers[h][ip].peer_id = own_id[ip]

\* the token field of a datagram: what follows MAGIC, the 4-byte id and
\* the 2-byte port
TokenField(r) == Drop(r, Len(MAGIC) + 6)

\* C11: a datagram with a valid MAGIC prefix whose token field differs from
\* TOKEN is never inserted into the peer table of the host that receives it.
C11_ForeignTokenRejected ==
  [][\A h \in DiscHosts : \A dg \in udp :
       (/\ dg.dst = h
        /\ udp' = udp \ {dg}
        /\ StartsWith(dg.data, MAGIC)
        /\ TokenField(dg.data) # TOKEN)
       => peers'[h] = peers[h]]_vars

\* C12: a host's own address never appears in its peer table, its own
\* beacons being rejected by _listen.
C12_OwnAddressNeverListed ==
  \A h \in DiscHosts : peers[h][h] = NoPeer

\* C13: with the same TOKEN on both hosts and beacons that are eventually
\* delivered, eventually each host's peer table has an entry for the other
\* host's address.
C13_EventuallyDiscovered ==
  <>(\A h \in DiscHosts : \A o \in DiscHosts \ {h} : peers[h][o] # NoPeer)

\* both hosts have received a beacon of the other and listed its address
C13_Witness ==
  /\ peers["h1"]["h2"] # NoPeer /\ InSeq("h2", peer_keys["h1"])
  /\ peers["h2"]["h1"] # NoPeer /\ InSeq("h1", peer_keys["h2"])

(* ======================================================================= *)
(*     Duplicated control records: kvm.py process_message and KVM.py       *)
(*     handle_client                                                       *)
(* ======================================================================= *)
(* A connected kvm.py pair whose peers have each written the same control  *)
(* record twice, and a KVM.py server in RemoteControl whose active client  *)
(* has written return_to_server twice (receive_commands sends one for      *)
(* every mouse_move at the return edge).  Only the receive loops run.      *)
(* ======================================================================= *)
ControlRecords == {"control_request", "control_release"}

InitDup ==
  \* kvm.py: an established session, has_control as a connected pair has it
  /\ connected = [n \in Hosts |-> TRUE]
  /\ has_control \in [Hosts -> BOOLEAN]
  /\ ~(has_control["server"] /\ has_control["client"])
  /\ session = 1
  /\ pending = FALSE
  /\ alive = TRUE
  /\ inbox \in [Hosts -> {<<m, m>> : m \in ControlRecords}]
  /\ comm = [n \in Hosts |-> TRUE]
  /\ discovering = [n \in Hosts |-> FALSE]
  /\ wfc_pc = "exited"
  /\ wcn_pc = "done"
  \* KVM.py: the client 1 is registered and is the current screen
  /\ max_conns = 1
  /\ max_events = 0
  /\ backlog = <<>>
  /\ acceptPc = 0
  /\ clients = <<1>>
  /\ \E pos \in Positions :
       /\ client_positions = [c \in Conns |-> IF c = 1 THEN pos ELSE "none"]
       /\ position = [c \in Conns |-> pos]
       /\ current_screen = pos
  /\ active_client = 1
  /\ ctrl_pressed = FALSE
  /\ win_pressed = FALSE
  /\ kbd_listening = TRUE
  /\ events = 0
  /\ handler = [c \in Conns |-> IF c = 1 THEN "running" ELSE "none"]
  /\ srv_closed = [c \in Conns |-> FALSE]
  /\ c2s = [c \in Conns |-> IF c = 1 THEN JsonDumps(ReturnMsg) \o JsonDumps(ReturnMsg)
                            ELSE <<>>]
  /\ s2c = [c \in Conns |-> <<>>]
  /\ cl_pc = [c \in Conns |-> IF c = 1 THEN "receiving" ELSE "idle"]
  /\ is_controlling = [c \in Conns |-> FALSE]

NextDup ==
  \/ \E n \in Hosts : HandleCommunication(n)
  \/ \E c \in Conns, k \in 1..(2 * MaxInFlight) : HandleClientRecv(c, k)

(* ------------------- duplicated control records: claims ---------------- *)

\* C16: a control_request or control_release that process_message has just
\* processed, and a return_to_server that handle_client has just processed,
\* leave the receiver in a state that processing the same record once more
\* does not change: has_control for kvm.py, current_screen and active_client
\* for KVM.py.
C16_DuplicateIsNoOp ==
  [][/\ \A n \in Hosts : \A m \in ControlRecords :
          (/\ inbox[n] # <<>>
           /\ Head(inbox[n]) = m
           /\ inbox'[n] = Tail(inbox[n]))
          => (process_message(n, m))' = has_control'[n]
     /\ \A c \in Conns : \A k \in 1..(2 * MaxInFlight) :
          (/\ k <= Len(c2s[c])
           /\ JsonLoads(Take(c2s[c], k)) = ReturnMsg
           /\ c2s'[c] = Drop(c2s[c], k))
          => (handle_client(ReturnMsg, current_screen, active_client))'
               = [current_screen |-> current_screen',
                  active_client |-> active_client']]_vars

\* both duplicates of the server were processed once and come a second time:
\* the server has taken control back on the first control_release and holds
\* the second; it is on its own screen after the first return_to_server and
\* holds the second
C16_Witness ==
  /\ has_control["server"]
  /\ inbox["server"] = <<"control_release">>
  /\ current_screen = "server" /\ active_client = 0
  /\ c2s[1] = JsonDumps(ReturnMsg)

(* ======================================================================= *)
(*        Key delivery: one stroke of 'a' to the three receivers           *)
(* ======================================================================= *)
(* The forwarding side of each program sends the press and then the        *)
(* release of 'a'; the receiving side is the injection target.  KVM.py     *)
(* writes json.dumps(data) with nothing after it and decodes every recv()  *)
(* chunk as one JSON text; kvm.py and tinyKVM.py end each record with a    *)
(* newline and split on it.  The calls on the keyboard controller are a    *)
(* function of the messages each receive loop hands on.                    *)
(* ======================================================================= *)

\* what the listeners send for one stroke, in order
KeyStroke == <<"press_a", "release_a">>

\* a call on pynput's keyboard controller
Call(op, key) == [op |-> op, key |-> key]

\* KVM.py on_press / on_release: the dict given to send_to_active_client,
\* with key_str = str(key).replace("'", "")
KeyMsg(m) == IF m = "press_a" THEN KeyPressMsg("a") ELSE KeyReleaseMsg("a")

\* some names of handle_key's key_map, and the strings of length one
KeyMapNames == {"Key.space", "Key.enter", "Key.shift", "Key.ctrl"}
SingleChars == {"a"}

\* KVMClient.handle_key: the controller calls it makes
handle_key(key_str, is_press) ==
  IF key_str \in KeyMapNames \/ key_str \in SingleChars
  THEN <<Call(IF is_press THEN "press" ELSE "release", key_str)>>
  ELSE <<>>

\* the key branches of receive_commands, for the commands decoded so far
RECURSIVE CommandCalls(_)
CommandCalls(cmds) ==
  IF cmds = <<>> THEN <<>>
  ELSE LET cmd == Head(cmds)
       IN  (IF cmd.type = "key_press" THEN handle_key(cmd.key, TRUE)
            ELSE IF cmd.type = "key_release" THEN handle_key(cmd.key, FALSE)
            ELSE <<>>) \o CommandCalls(Tail(cmds))

\* kvm.py process_message on the lines handed to it: the 'key' branch acts
\* only on a client that has control; a line json.loads rejects is dropped.
\* "press_a" is the text of {'type': 'key', 'key': 'a', 'pressed': True}.
RECURSIVE ProcessKeyCalls(_, _, _)
ProcessKeyCalls(lines, mode, hc) ==
  IF lines = <<>> THEN <<>>
  ELSE LET msg == Loads(Head(lines))
       IN  (IF msg \in KeyRecords /\ mode = "client" /\ hc
            THEN <<Call(IF msg = "press_a" THEN "press" ELSE "release", "a")>>
            ELSE <<>>) \o ProcessKeyCalls(Tail(lines), mode, hc)

\* tinyKVM InputInject.handle on the messages handed to it: "kp" presses and
\* "kr" releases self._key(msg["key"]), which strips the quotes of "'a'".
\* "press_a" is the text of {"t": "kp", "key": "'a'"}.
RECURSIVE InjectCalls(_)
InjectCalls(msgs) ==
  IF msgs = <<>> THEN <<>>
  ELSE (IF Head(msgs) = "press_a" THEN <<Call("press", "a")>>
        ELSE IF Head(msgs) = "release_a" THEN <<Call("release", "a")>>
        ELSE <<>>) \o InjectCalls(Tail(msgs))

InitKeys ==
  /\ InitFrame
  /\ wire_c = <<>> /\ commands = <<>> /\ loop_c = "running"

\* the forwarding sides send the next record of the stroke: KVM.py
\* send_to_active_client, kvm.py send_message, tinyKVM Link.send.  Bytes
\* for a receive loop that has ended are not kept.
KeysSend ==
  /\ Len(sent) < Len(KeyStroke)
  /\ LET m == KeyStroke[Len(sent) + 1]
     IN  /\ sent' = Append(sent, m)
         /\ wire_c' = IF loop_c = "running" THEN wire_c \o JsonDumps(KeyMsg(m))
                      ELSE wire_c
         /\ wire_k' = wire_k \o Payload(m)
         /\ wire_t' = wire_t \o Payload(m)
  /\ UNCHANGED <<notKeys, buffer, processed, buf, handled, loop_t, commands,
                 loop_c>>

\* KVMClient.receive_commands: one recv(BUFFER_SIZE) that returns k bytes,
\* json.loads on the chunk and the branch of its type; an exception leaves
\* the loop
ReceiveCommands(k) ==
  /\ loop_c = "running"
  /\ k \in 1..Len(wire_c)
  /\ LET cmd == JsonLoads(Take(wire_c, k))
     IN  IF cmd = Invalid
         THEN /\ loop_c' = "ended"
              /\ wire_c' = <<>>
              /\ UNCHANGED commands
         ELSE /\ commands' = Append(commands, cmd)
              /\ wire_c' = Drop(wire_c, k)
              /\ UNCHANGED loop_c
  /\ UNCHANGED <<notKeys, frameVars>>

NextKeys ==
  \/ KeysSend
  \/ \E k \in 1..(2 * Len(KeyStroke)) : ReceiveCommands(k)
  \/ \E k \in 1..(Len(KeyStroke) * (BodyLen + 1)) : HandleCommunicationRecv(k)
  \/ \E k \in 1..(Len(KeyStroke) * (BodyLen + 1)) : RecvLoopRecv(k)

(* ------------------------- key delivery: claims ------------------------ *)

\* C14: for every way the transport delivers the bytes of a press of 'a'
\* followed by its release, the injection target makes exactly one press
\* call and then exactly one release call: at any time the calls made are a
\* prefix of <<press, release>>, and they are all of it once both records
\* were sent and no byte is left to read.
C14_OnePressThenOneRelease ==
  LET want == <<Call("press", "a"), Call("release", "a")>>
      callsKVM == CommandCalls(commands)
      callsKvm == ProcessKeyCalls(processed, "client", TRUE)
      callsTiny == InjectCalls(handled)
  IN  /\ IsPrefix(callsKVM, want)
      /\ IsPrefix(callsKvm, want)
      /\ IsPrefix(callsTiny, want)
      /\ (sent = KeyStroke /\ wire_c = <<>>) => callsKVM = want
      /\ (sent = KeyStroke /\ wire_k = <<>>) => callsKvm = want
      /\ (sent = KeyStroke /\ wire_t = <<>>) => callsTiny = want

(* ======================================================================= *)
(*            tinyKVM client connect: Link.__init__                        *)
(* ======================================================================= *)
(* Node._peer_watch calls Link(ip, port) once the role "client" is chosen. *)
(* What connect() does is the network's and the server's choice.           *)
(* ======================================================================= *)

\* the exceptions of sock.connect that the retry loop catches
Retried == {"ConnectionRefusedError", "TimeoutError"}
\* what one sock.connect call can do; "OSError" stands for every exception
\* the loop does not catch (no route to host, ...)
ConnectOutcomes == {"connected", "OSError"} \cup Retried

\* the loop's else clause without its raise: __init__ goes on to
\* self.lock = threading.Lock() and returns
for_else_FallsThrough == "usable"

\* `else: raise` after the last iteration: no exception is active any more
\* (the except clause has ended), so raise itself raises RuntimeError
for_else == "RuntimeError"

\* Link.__init__ up to the for loop
InitLink ==
  /\ attempt = 0
  /\ link_log = <<>>
  /\ slept = 0
  /\ sock = "unconnected"
  /\ link_result = "connecting"

\* one iteration of the for loop, with what follows the loop when this
\* iteration is its last
LinkAttempt(outcome) ==
  /\ link_result = "connecting"
  /\ attempt < MaxAttempts
  /\ attempt' = attempt + 1
  /\ IF outcome = "connected"
     THEN /\ sock' = "connected"
          /\ link_result' = "usable"
          /\ UNCHANGED <<link_log, slept>>
     ELSE IF outcome \in Retried
     THEN /\ link_log' = Append(link_log, outcome)
          /\ slept' = slept + SleepTenths
          /\ link_result' = IF attempt + 1 = MaxAttempts THEN for_else
                            ELSE "connecting"
          /\ UNCHANGED sock
     ELSE /\ link_result' = outcome
          /\ UNCHANGED <<link_log, slept, sock>>
  /\ UNCHANGED notLink

NextLink == \E outcome \in ConnectOutcomes : LinkAttempt(outcome)

(* ------------------------ client connect: claims ----------------------- *)

\* C17: Link.__init__ makes at most 10 connection attempts, with the same
\* delay after each failed one; the attempt that succeeds is the last one
\* and yields the usable Link at once; when all 10 attempts have failed the
\* constructor has ended with an error, and no Link exists without a
\* connected socket.
C17_BoundedRetries ==
  /\ [](/\ attempt <= MaxAttempts
        /\ slept = SleepTenths * Len(link_log)
        /\ link_result = "usable" <=> sock = "connected"
        /\ link_result = "connecting" => Len(link_log) = attempt
        /\ Len(link_log) = MaxAttempts
             => link_result \notin {"usable", "connecting"})
  /\ [][/\ link_result = "usable" => attempt' = attempt
        /\ attempt' # attempt => /\ attempt' = attempt + 1
                                 /\ link_result = "connecting"]_vars

\* all 10 attempts were refused or timed out and the constructor has raised
C17_Witness ==
  /\ Len(link_log) = MaxAttempts
  /\ attempt = MaxAttempts
  /\ link_result = "RuntimeError"
  /\ sock = "unconnected"

(* ======================================================================= *)
(*   kvm.py handshake: establish_connection and exchange_screen_info       *)
(* ======================================================================= *)
(* Both hosts run establish_connection for one TCP connection between      *)
(* them.  Each writes its screen dimensions as one newline-ended record    *)
(* and reads the peer's with a socket timeout of one second.               *)
(* ======================================================================= *)

\* json.dumps(dims).encode() + b'\n'
DimsRecord == Payload("dims")

\* data.decode().strip(): trailing newlines go
RECURSIVE Strip(_)
Strip(data) ==
  IF data # <<>> /\ data[Len(data)] = Newline
  THEN Strip(Take(data, Len(data) - 1))
  ELSE data

\* json.loads(data.decode().strip()) followed by peer_dims['width'] and
\* peer_dims['height']: TRUE when data is the text of the dimensions and
\* nothing more; anything else raises
ParsesAsDims(data) == Strip(data) = Dumps("dims")

\* the dimensions and at most MaxMsgs records after them are on the way
HsWireMax == (MaxMsgs + 1) * (BodyLen + 1)

\* the toggle model's variables that the handshake leaves alone
hsToggleRest == <<session, pending, alive, inbox, wfc_pc, wcn_pc>>

InitHs ==
  /\ InitToggle
  /\ est_pc = [n \in Hosts |-> "connecting"]
  /\ hs_wire = [n \in Hosts |-> <<>>]
  /\ hs_data = [n \in Hosts |-> <<>>]
  /\ peer_dims = [n \in Hosts |-> FALSE]

\* establish_connection: accept() / connect() has returned; settimeout(1.0),
\* self.connected = True, then exchange_screen_info's sendall
EstablishConnected(n) ==
  /\ est_pc[n] = "connecting"
  /\ est_pc' = [est_pc EXCEPT ![n] = "exchanging"]
  /\ connected' = [connected EXCEPT ![n] = TRUE]
  /\ hs_wire' = [hs_wire EXCEPT ![Peer(n)] = @ \o DimsRecord]
  /\ UNCHANGED <<notHs, hsToggleRest, has_control, comm, discovering, hs_data,
                 peer_dims>>

\* establish_connection: accept() times out or connect() raises; the except
\* clause clears connected and calls reconnect
EstablishFails(n) ==
  /\ est_pc[n] = "connecting"
  /\ est_pc' = [est_pc EXCEPT ![n] = "aborted"]
  /\ reconnect(n)
  /\ UNCHANGED <<notHs, hsToggleRest, comm, hs_wire, hs_data, peer_dims>>

\* exchange_screen_info: one recv(1024) that returns k bytes.  With a
\* newline in data the loop ends and data is parsed; whether or not that
\* raises, exchange_screen_info returns and establish_connection starts the
\* handle_communication thread, whose buffer starts empty.
ExchangeRecv(n, k) ==
  /\ est_pc[n] = "exchanging"
  /\ k \in 1..Len(hs_wire[n])
  /\ hs_wire' = [hs_wire EXCEPT ![n] = Drop(@, k)]
  /\ LET data == hs_data[n] \o Take(hs_wire[n], k)
     IN  IF \E i \in 1..Len(data) : data[i] = Newline
         THEN /\ peer_dims' = [peer_dims EXCEPT ![n] = ParsesAsDims(data)]
              /\ hs_data' = [hs_data EXCEPT ![n] = <<>>]
              /\ est_pc' = [est_pc EXCEPT ![n] = "running"]
              /\ comm' = [comm EXCEPT ![n] = TRUE]
         ELSE /\ hs_data' = [hs_data EXCEPT ![n] = data]
              /\ UNCHANGED <<peer_dims, est_pc, comm>>
  /\ UNCHANGED <<notHs, hsToggleRest, connected, has_control, discovering>>

\* exchange_screen_info: recv raises socket.timeout because nothing came for
\* a second; `except: pass` ends exchange_screen_info and
\* establish_connection starts the handle_communication thread
ExchangeTimeout(n) ==
  /\ est_pc[n] = "exchanging"
  /\ hs_wire[n] = <<>>
  /\ hs_data' = [hs_data EXCEPT ![n] = <<>>]
  /\ est_pc' = [est_pc EXCEPT ![n] = "running"]
  /\ comm' = [comm EXCEPT ![n] = TRUE]
  /\ UNCHANGED <<notHs, hsToggleRest, connected, has_control, discovering,
                 hs_wire, peer_dims>>

\* exchange_screen_info: recv returns b"" because the peer's end is gone
\* (its establish_connection failed and dropped the sockets); the loop
\* breaks, json.loads raises on what data holds, `except: pass`, and
\* establish_connection starts the handle_communication thread
ExchangeEof(n) ==
  /\ est_pc[n] = "exchanging"
  /\ hs_wire[n] = <<>>
  /\ est_pc[Peer(n)] = "aborted"
  /\ peer_dims' = [peer_dims EXCEPT ![n] = ParsesAsDims(hs_data[n])]
  /\ hs_data' = [hs_data EXCEPT ![n] = <<>>]
  /\ est_pc' = [est_pc EXCEPT ![n] = "running"]
  /\ comm' = [comm EXCEPT ![n] = TRUE]
  /\ UNCHANGED <<notHs, hsToggleRest, connected, has_control, discovering,
                 hs_wire>>

\* send_message of a host whose session runs: one more record for the peer
\* (bytes for a peer that has given up are not kept)
SendAfterHandshake(n) ==
  /\ est_pc[n] = "running"
  /\ connected[n]
  /\ est_pc[Peer(n)] \in {"connecting", "exchanging"}
  /\ Len(hs_wire[Peer(n)]) < HsWireMax
  /\ hs_wire' = [hs_wire EXCEPT ![Peer(n)] = @ \o Payload("key")]
  /\ UNCHANGED <<notHs, toggleVars, est_pc, hs_data, peer_dims>>

NextHs ==
  \/ \E n \in Hosts : EstablishConnected(n)
  \/ \E n \in Hosts : EstablishFails(n)
  \/ \E n \in Hosts, k \in 1..HsWireMax : ExchangeRecv(n, k)
  \/ \E n \in Hosts : ExchangeTimeout(n)
  \/ \E n \in Hosts : ExchangeEof(n)
  \/ \E n \in Hosts : SendAfterHandshake(n)

(* --------------------------- handshake: claims ------------------------- *)

\* C18: a host treats its session as usable (connected is True and the
\* handle_communication loop runs) only after the peer's screen-dimension
\* record was received and parsed; when the record does not come within the
\* socket timeout or does not parse, the connection is aborted instead.
C18_UsableOnlyAfterHandshake ==
  \A n \in Hosts :
    (connected[n] /\ comm[n]) => peer_dims[n]

\* the other variants while they are not the one running
IdleTiny ==
  /\ role = <<>> /\ node_has_control = <<>> /\ link = <<>>
  /\ capture_active = <<>> /\ overlay_shown = <<>> /\ listening = <<>>
  /\ link_pending = <<>> /\ conn = "none" /\ node_inbox = <<>>
  /\ recv_loop = <<>>

IdleFrame ==
  /\ sent = <<>> /\ wire_k = <<>> /\ buffer = <<>> /\ processed = <<>>
  /\ wire_t = <<>> /\ buf = <<>> /\ handled = <<>> /\ loop_t = "none"

IdleDisc ==
  /\ own_id = <<>> /\ tcp_port = <<>> /\ udp = {} /\ peers = <<>>
  /\ peer_keys = <<>> /\ watch = <<>>

IdleKeys ==
  /\ wire_c = <<>> /\ commands = <<>> /\ loop_c = "none"

IdleLink ==
  /\ attempt = 0 /\ link_log = <<>> /\ slept = 0 /\ sock = "none"
  /\ link_result = "none"

IdleHs ==
  /\ est_pc = <<>> /\ hs_wire = <<>> /\ hs_data = <<>> /\ peer_dims = <<>>

\* nobody at the keyboard or at the button
IdleUser ==
  /\ held = {} /\ clicks = <<>>

\* no pointer position is being carried over
IdleCoord ==
  /\ geom = <<>> /\ mm_wire = <<>> /\ cursor = 0

\* no writer is between two assignments
IdleRace ==
  /\ mouse_pc = 0 /\ hc_pc = <<>>

(* ======================================================================= *)
(*        The three programs: who forwards and who injects input           *)
(* ======================================================================= *)
\* the "type" of the input events capture_input forwards in KVM.py
InputTypes == {"mouse_move", "key_press", "key_release"}

\* this step writes an input event to KVM.py connection c
SlotSendsInput(c) ==
  /\ Len(s2c'[c]) > Len(s2c[c])
  /\ s2c'[c][Len(s2c'[c])].msg.type \in InputTypes

\* this step writes an input event to the kvm.py host n
ToggleSendsInput(n) ==
  /\ Len(inbox'[n]) > Len(inbox[n])
  /\ inbox'[n][Len(inbox'[n])] = "key"

\* this step writes an input event to the tinyKVM node n
TinySendsInput(n) ==
  /\ Len(node_inbox'[n]) > Len(node_inbox[n])
  /\ node_inbox'[n][Len(node_inbox'[n])] \in CaptureTypes

\* C22: a captured input event goes on the wire only from the forwarding
\* side: KVM.py only while current_screen is not 'server', kvm.py only from
\* the connected server while its has_control is False, tinyKVM only from
\* the node whose role is server while its has_control is False; a client
\* never forwards.
C22_ForwardingGate ==
  [][/\ \A c \in DOMAIN s2c : SlotSendsInput(c) => current_screen # "server"
     /\ \A n \in DOMAIN inbox :
          ToggleSendsInput(n) =>
            n = "client" /\ connected["server"] /\ ~has_control["server"]
     /\ \A n \in DOMAIN node_inbox :
          TinySendsInput(n) =>
            role[Other(n)] = "server" /\ ~node_has_control[Other(n)]]_vars

\* an input event is on its way to a KVM.py client
C22_Witness ==
  /\ current_screen # "server"
  /\ \E c \in DOMAIN s2c : \E i \in 1..Len(s2c[c]) : s2c[c][i].msg.type \in InputTypes

\* receive_commands hands cmd to the mouse or keyboard controller: every
\* input event except the mouse_move that is answered by return_to_server
Injected(cmd, pos) ==
  /\ cmd.type \in InputTypes
  /\ ~(cmd.type = "mouse_move" /\ AtReturnEdge(pos, ClientX(cmd.x)))

\* this step is an iteration of KVMClient c's receive_commands that injects
\* the event it decoded
ClientInjects(c) ==
  /\ cl_pc[c] = "receiving" /\ cl_pc'[c] = "receiving"
  /\ Len(s2c'[c]) < Len(s2c[c])
  /\ handler' = handler
  /\ Injected(JsonLoads(Take(s2c[c], Len(s2c[c]) - Len(s2c'[c]))), position[c])

\* C23: a received input event is handed to the local mouse or keyboard
\* controller only while the receiving host is the injection target; for a
\* KVM.py client that is while is_controlling is True.
C23_InjectionGate ==
  [][\A c \in DOMAIN s2c : ClientInjects(c) => is_controlling[c]]_vars

\* this step writes a 'switch' to KVM.py connection c
SlotSendsSwitch(c) ==
  /\ Len(s2c'[c]) > Len(s2c[c])
  /\ s2c'[c][Len(s2c'[c])].msg.type = "switch"

\* C24: with two clients connected, every forwarded input event and every
\* 'switch' is written to the socket that is active_client when the write is
\* made; the other client's socket gets none of them.
C24_OnlyActiveClientWritten ==
  [][\A c \in DOMAIN s2c :
       Len(clients) = 2 /\ (SlotSendsInput(c) \/ SlotSendsSwitch(c))
         => active_client' = c]_vars

\* two clients connected and an input event on its way to the active one
C24_Witness ==
  /\ Len(clients) = 2
  /\ active_client # 0
  /\ \E i \in 1..Len(s2c[active_client]) :
       s2c[active_client][i].msg.type \in InputTypes

(* ----------- slot model: two clients registered and receiving ----------- *)
\* KVM.py after two KVMClient.connect calls have completed: both sockets are
\* registered, both handle_client threads run, both clients are in
\* receive_commands, and no input has been captured yet
Paired ==
  /\ max_conns = 2
  /\ backlog = <<>>
  /\ acceptPc = 0
  /\ clients = <<1, 2>>
  /\ \E p1, p2 \in Positions :
       /\ position = [c \in Conns |-> IF c = 1 THEN p1 ELSE IF c = 2 THEN p2 ELSE "right"]
       /\ client_positions =
            [c \in Conns |-> IF c = 1 THEN p1 ELSE IF c = 2 THEN p2 ELSE "none"]
  /\ current_screen = "server"
  /\ active_client = 0
  /\ ctrl_pressed = FALSE
  /\ win_pressed = FALSE
  /\ kbd_listening = TRUE
  /\ events = 0
  /\ handler = [c \in Conns |-> IF c <= 2 THEN "running" ELSE "none"]
  /\ srv_closed = [c \in Conns |-> FALSE]
  /\ c2s = [c \in Conns |-> <<>>]
  /\ s2c = [c \in Conns |-> <<>>]
  /\ cl_pc = [c \in Conns |-> IF c <= 2 THEN "receiving" ELSE "idle"]
  /\ is_controlling = [c \in Conns |-> FALSE]

InitPaired ==
  /\ max_events = MaxEvents
  /\ Paired

\* this step is an iteration of handle_client for connection c that decodes
\* a return_to_server
ServerReadsReturn(c) ==
  /\ handler[c] = "running" /\ handler'[c] = "running"
  /\ acceptPc # c
  /\ Len(c2s'[c]) < Len(c2s[c])
  /\ JsonLoads(Take(c2s[c], Len(c2s[c]) - Len(c2s'[c]))).type = "return_to_server"

\* C25: a return_to_server read from a client that is not the current
\* active_client leaves current_screen and active_client as they are.
C25_ForeignReturnRejected ==
  [][\A c \in DOMAIN c2s :
       ServerReadsReturn(c) /\ active_client # c
         => UNCHANGED <<current_screen, active_client>>]_vars

(* ------------- slot model: the user's keys, pressed and held ------------- *)
\* what a key event leaves alone, the held keys apart
keyRest == <<max_conns, max_events, toggleVars, tinyVars, frameVars, discVars, keyVars,
             linkVars, hsVars, clicks, coordVars, raceVars, srvAcc, srvSess, c2s,
             cliVars>>

\* the user presses a key at the server: the keyboard listener, if its
\* thread still runs, calls on_press
UserPress(key) ==
  /\ key \notin held
  /\ held' = held \cup {key}
  /\ events < max_events
  /\ events' = events + 1
  /\ IF kbd_listening
     THEN on_press(key)
     ELSE UNCHANGED <<ctrl_pressed, win_pressed, kbd_listening, current_screen,
                      active_client, s2c>>
  /\ UNCHANGED keyRest

\* the user lets a key go
UserRelease(key) ==
  /\ key \in held
  /\ held' = held \ {key}
  /\ events < max_events
  /\ events' = events + 1
  /\ IF kbd_listening
     THEN on_release(key)
     ELSE UNCHANGED <<ctrl_pressed, win_pressed, kbd_listening, current_screen,
                      active_client, s2c>>
  /\ UNCHANGED keyRest

\* room for a chord, the release of its last key and a second chord
InitChord ==
  /\ max_events = MaxEvents + 1
  /\ Paired
  /\ held = {}
  /\ clicks = <<>>

NextChord ==
  \/ \E c \in Conns, k \in 1..(2 * MaxInFlight + 1) : ClientReceive(c, k)
  \/ \E c \in Conns : ClientStop(c)
  \/ \E c \in Conns, k \in 1..(2 * MaxInFlight) : HandleClientRecv(c, k)
  \/ \E c \in Conns : HandleClientCleanup(c)
  \/ \E x \in 0..(ServerW - 1) : OnMove(x)
  \/ \E key \in Keys : UserPress(key)
  \/ \E key \in Keys : UserRelease(key)

\* this step is the user pressing `key` with Ctrl and Win held down
ChordPressed(key) ==
  /\ held = {"ctrl", "cmd"}
  /\ held' = held \cup {key}

\* C26: whenever the user presses Ctrl+Win+Up while a client is the current
\* screen, the server is back at current_screen 'server' with no
\* active_client and a return_to_server has been written to the client that
\* was active; also when an earlier chord has been handled before.
C26_ReturnChord ==
  [][ChordPressed("up") /\ current_screen # "server"
       => /\ current_screen' = "server"
          /\ active_client' = 0
          /\ (active_client # 0 /\ InSeq(active_client, clients)
              /\ cl_pc[active_client] = "receiving")
               => /\ Len(s2c'[active_client]) > Len(s2c[active_client])
                  /\ s2c'[active_client][Len(s2c'[active_client])].msg = ReturnMsg]_vars

(* ------------- toggle model: the user at the control button ------------- *)
\* the user clicks the control button of host n (command=self.toggle_control).
\* toggle_control returns at once unless the host is connected and has
\* control; update_ui disables the server's button in that case.
ClickControlButton(n, fails) ==
  /\ clicks[n] < MaxEvents
  /\ clicks' = [clicks EXCEPT ![n] = @ + 1]
  /\ IF connected[n] /\ has_control[n]
     THEN send_message(n, IF n = "server" THEN "control_request" ELSE "control_release",
                       [has_control EXCEPT ![n] = FALSE], fails)
     ELSE UNCHANGED <<connected, has_control, discovering, inbox>>
  /\ UNCHANGED <<slotVars, tinyVars, frameVars, discVars, keyVars, linkVars, hsVars, held,
                 coordVars, raceVars,
                 session, pending, alive, comm, wfc_pc, wcn_pc>>

InitClick ==
  /\ InitToggle
  /\ clicks = [n \in Hosts |-> 0]
  /\ held = {}

NextClick ==
  \/ \E n \in Hosts, fails \in BOOLEAN : ClickControlButton(n, fails)
  \/ \E fails \in BOOLEAN : on_input(fails)
  \/ \E n \in Hosts : HandleCommunication(n)
  \/ \E n \in Hosts : CommFailure(n)
  \/ \E n \in Hosts : CommExit(n)
  \/ ChannelFails
  \/ WaitForClientTest
  \/ AcceptTimeout
  \/ ServerAccept
  \/ ClientEstablish
  \/ BroadcastExit
  \/ WaitForConnectionSees
  \/ WaitForConnectionSets

\* C27: a click on the server's control button while the client holds
\* control (the server connected with has_control False) gives the server
\* control back (has_control True)
\* and writes control_release to the client.
C27_ServerToggleTakesBack ==
  [][clicks'["server"] # clicks["server"]
     /\ connected["server"] /\ ~has_control["server"] /\ has_control["client"]
       => /\ has_control'["server"]
          /\ Len(inbox'["client"]) > Len(inbox["client"])
          /\ inbox'["client"][Len(inbox'["client"])] = "control_release"]_vars

(* ------------------- slot model: the controlled side -------------------- *)
\* this step is an iteration of KVMClient c's receive_commands that decodes
\* a message of type t
ClientReads(c, t) ==
  /\ cl_pc[c] = "receiving" /\ cl_pc'[c] = "receiving"
  /\ Len(s2c'[c]) < Len(s2c[c])
  /\ handler' = handler
  /\ JsonLoads(Take(s2c[c], Len(s2c[c]) - Len(s2c'[c]))).type = t

\* C28: a client that reads the return_to_server the server sent when it took
\* control back is no longer controlled: is_controlling is False afterwards.
C28_ClientLeavesControlled ==
  [][\A c \in DOMAIN s2c :
       ClientReads(c, "return_to_server") => ~is_controlling'[c]]_vars

\* the message KVMClient c decodes in this step
Decoded(c) == JsonLoads(Take(s2c[c], Len(s2c[c]) - Len(s2c'[c])))

\* the edge of a client's screen that faces the server, where the 'switch'
\* branch puts the cursor: x = 0 in the 'right' slot, the last column in the
\* 'left' slot
EntryEdge(pos, x) ==
  \/ pos = "right" /\ x <= 0
  \/ pos = "left" /\ x >= ClientW - 1

\* C29: a controlled client answers a mouse_move with return_to_server
\* exactly when the position maps to the edge of its screen that faces the
\* server: x <= 0 in the 'right' slot, x >= width - 1 in the 'left' slot.
C29_ReturnAtFacingEdge ==
  [][\A c \in DOMAIN s2c :
       ClientReads(c, "mouse_move") /\ is_controlling[c] /\ handler[c] = "running"
         => (Len(c2s'[c]) > Len(c2s[c])
               <=> EntryEdge(position[c], ClientX(Decoded(c).x)))]_vars

(* -------------------- slot model: the hotkey target --------------------- *)
\* the connected clients registered for slot d
InSlot(d) == {c \in Conns : InSeq(c, clients) /\ client_positions[c] = d}

ServerChunk(c) == Take(c2s[c], Len(c2s[c]) - Len(c2s'[c]))

\* this step is an iteration of handle_client for connection c whose chunk
\* holds bytes of a return_to_server and is rejected by json.loads
ServerReadsBrokenReturn(c) ==
  /\ handler[c] = "running"
  /\ acceptPc # c
  /\ Len(c2s'[c]) < Len(c2s[c])
  /\ JsonLoads(ServerChunk(c)) = Invalid
  /\ \E i \in 1..Len(ServerChunk(c)) : ServerChunk(c)[i].msg = ReturnMsg

\* C31: a control-plane record that fails to parse ends its session and
\* puts control back at the server: after handle_client has read a
\* return_to_server that json.loads rejects, the connection's handler is no
\* longer running and current_screen is 'server' with no active_client.
C31_ControlParseErrorFatal ==
  [][\A c \in DOMAIN c2s :
       ServerReadsBrokenReturn(c)
         => /\ handler'[c] # "running"
            /\ current_screen' = "server"
            /\ active_client' = 0]_vars

(* ======================================================================= *)
(*        Pointer coordinates: from the sender's screen to the receiver's  *)
(* ======================================================================= *)
Programs == {"KVM.py", "kvm.py", "tinyKVM.py"}
Widths == 1..ScreenMax

\* the x a mouse-move record carries for the sender's pixel x on a screen sw
\* wide, as the fraction num/den: KVM.py on_move and kvm.py on_mouse_move
\* send x / self.screen_width, tinyKVM's _mm sends x itself
WireX(prog, x, sw) ==
  IF prog = "tinyKVM.py"
  THEN [num |-> x, den |-> 1]
  ELSE [num |-> x, den |-> sw]

\* the x handed to the mouse controller on a screen rw wide: KVM.py and
\* kvm.py compute int(x * self.screen_width), tinyKVM's InputInject.handle
\* uses msg["x"] as it is
InjectX(prog, v, rw) ==
  IF prog = "tinyKVM.py"
  THEN v.num
  ELSE (v.num * rw) \div v.den

InitCoord ==
  /\ geom \in [prog : Programs, sw : Widths, rw : Widths]
  /\ mm_wire = <<>>
  /\ cursor = 0

\* what a pointer step leaves alone
notCoord == <<slotVars, toggleVars, tinyVars, frameVars, discVars, keyVars, linkVars,
              hsVars, userVars, raceVars>>

\* the sender's mouse listener reports the pointer at pixel x of its screen
CaptureMove(x) ==
  /\ x \in 0..(geom.sw - 1)
  /\ Len(mm_wire) < MaxInFlight
  /\ mm_wire' = Append(mm_wire, WireX(geom.prog, x, geom.sw))
  /\ UNCHANGED <<notCoord, geom, cursor>>

\* the receiver decodes the next mouse-move record and positions its pointer
InjectMove ==
  /\ mm_wire # <<>>
  /\ cursor' = InjectX(geom.prog, Head(mm_wire), geom.rw)
  /\ mm_wire' = Tail(mm_wire)
  /\ UNCHANGED <<notCoord, geom>>

NextCoord ==
  \/ \E x \in 0..(ScreenMax - 1) : CaptureMove(x)
  \/ InjectMove

\* C32: a pointer position taken inside the sender's screen is injected
\* inside the receiver's screen, whatever the two widths are: the x given to
\* the receiver's mouse controller is one of its columns 0 .. width - 1.
C32_InjectedInsideScreen ==
  cursor \in 0..(geom.rw - 1)

(* ======================================================================= *)
(*   Slot model: the writers of current_screen and active_client, one      *)
(*   assignment at a time                                                  *)
(* ======================================================================= *)
\* what a step of the mouse listener or of a handle_client thread leaves alone
raceRest == <<max_conns, max_events, toggleVars, tinyVars, frameVars, discVars, keyVars,
              linkVars, hsVars, userVars, coordVars, backlog, acceptPc, srvSess,
              ctrl_pressed, win_pressed, kbd_listening, cliVars>>

\* two clients connected (as in Paired) and no writer inside its assignments
InitRace ==
  /\ max_events = MaxEvents
  /\ Paired
  /\ mouse_pc = 0
  /\ hc_pc = [c \in Conns |-> FALSE]

\* on_move at an edge while current_screen is 'server': switch_to_client has
\* found the socket for the position and executed
\* `self.current_screen = position`
SwitchAssignsScreen(x) ==
  /\ mouse_pc = 0
  /\ events < max_events
  /\ current_screen = "server"
  /\ x >= ServerW - 1 \/ x <= 0
  /\ LET pos == IF x >= ServerW - 1 THEN "right" ELSE "left"
         t == SwitchTarget(pos)
     IN /\ t # 0
        /\ current_screen' = pos
        /\ mouse_pc' = t
  /\ events' = events + 1
  /\ UNCHANGED <<raceRest, active_client, s2c, c2s, hc_pc>>

\* switch_to_client goes on: `self.active_client = client_socket` and the
\* 'switch' sent through send_to_active_client
SwitchAssignsClient ==
  /\ mouse_pc # 0
  /\ CanSend(mouse_pc)
  /\ active_client' = mouse_pc
  /\ s2c' = SendToActive(s2c, mouse_pc, clients, SwitchMsg)
  /\ mouse_pc' = 0
  /\ UNCHANGED <<raceRest, events, current_screen, c2s, hc_pc>>

\* on_move while a client is the current screen: the position is forwarded
MoveForwarded(x) ==
  /\ mouse_pc = 0
  /\ events < max_events
  /\ current_screen # "server"
  /\ Forward(MouseMoveMsg(x))
  /\ events' = events + 1
  /\ UNCHANGED <<raceRest, current_screen, active_client, c2s, raceVars>>

\* handle_client of connection c: recv, json.loads and, for a
\* return_to_server, `self.current_screen = "server"`
HandlerAssignsScreen(c, k) ==
  /\ handler[c] = "running"
  /\ ~hc_pc[c]
  /\ k \in 1..Len(c2s[c])
  /\ c2s' = [c2s EXCEPT ![c] = Drop(c2s[c], k)]
  /\ IF JsonLoads(Take(c2s[c], k)).type = "return_to_server"
     THEN /\ current_screen' = "server"
          /\ hc_pc' = [hc_pc EXCEPT ![c] = TRUE]
     ELSE UNCHANGED <<current_screen, hc_pc>>
  /\ UNCHANGED <<raceRest, events, active_client, s2c, mouse_pc>>

\* handle_client goes on: `self.active_client = None`
HandlerClearsClient(c) ==
  /\ hc_pc[c]
  /\ active_client' = 0
  /\ hc_pc' = [hc_pc EXCEPT ![c] = FALSE]
  /\ UNCHANGED <<raceRest, events, current_screen, s2c, c2s, mouse_pc>>

NextRace ==
  \/ \E x \in 0..(ServerW - 1) : SwitchAssignsScreen(x)
  \/ SwitchAssignsClient
  \/ \E x \in 0..(ServerW - 1) : MoveForwarded(x)
  \/ \E c \in Conns, k \in 1..(2 * MaxInFlight) : HandlerAssignsScreen(c, k)
  \/ \E c \in Conns : HandlerClearsClient(c)
  \/ \E c \in Conns, k \in 1..(2 * MaxInFlight + 1) : ClientReceive(c, k)

\* C33: whenever no writer is between its two assignments, the control
\* fields agree: current_screen is 'server' exactly when active_client is
\* None, under every interleaving of the mouse listener with the
\* handle_client threads.
C33_ControlFieldsAgree ==
  (mouse_pc = 0 /\ \A c \in DOMAIN hc_pc : ~hc_pc[c])
    => (current_screen = "server" <=> active_client = 0)

(* ------------------ toggle model: control is never lost ----------------- *)
\* C34: with both hosts connected over a working connection, nothing on the
\* way between them and the wait_for_connection thread finished, exactly one of the two hosts has
\* has_control True, so one of them can make the next toggle.
C34_ExactlyOneHasControl ==
  (/\ connected["server"] /\ connected["client"] /\ alive
   /\ inbox["server"] = <<>> /\ inbox["client"] = <<>>
   /\ wcn_pc = "done")
    => (has_control["server"] # has_control["client"])

(* ------------- handshake: control messages at the boundary -------------- *)
\* toggle_control on a connected host that has control, while the peer has
\* not yet left exchange_screen_info: has_control goes and the control
\* record is written to the socket the peer's handshake reads from
ToggleDuringHandshake(n) ==
  /\ connected[n]
  /\ has_control[n]
  /\ est_pc[Peer(n)] \in {"connecting", "exchanging"}
  /\ Len(hs_wire[Peer(n)]) + BodyLen + 1 <= HsWireMax
  /\ has_control' = [has_control EXCEPT ![n] = FALSE]
  /\ hs_wire' = [hs_wire EXCEPT ![Peer(n)] =
        @ \o Payload(IF n = "server" THEN "control_request" ELSE "control_release")]
  /\ UNCHANGED <<notHs, hsToggleRest, connected, comm, discovering, est_pc, hs_data,
                 peer_dims>>

NextHsCtl ==
  \/ \E n \in Hosts : EstablishConnected(n)
  \/ \E n \in Hosts : EstablishFails(n)
  \/ \E n \in Hosts, k \in 1..HsWireMax : ExchangeRecv(n, k)
  \/ \E n \in Hosts : ExchangeTimeout(n)
  \/ \E n \in Hosts : ExchangeEof(n)
  \/ \E n \in Hosts : SendAfterHandshake(n)
  \/ WaitForConnectionSees
  \/ WaitForConnectionSets
  \/ \E n \in Hosts : ToggleDuringHandshake(n)

\* the bytes exchange_screen_info of host n takes off the socket in this step
HandshakeChunk(n) == Take(hs_wire[n], Len(hs_wire[n]) - Len(hs_wire'[n]))

\* C35: no byte of a control message is taken by exchange_screen_info: what
\* a connected peer sends as control_request or control_release is left for
\* handle_communication and process_message, also when it sits in the same
\* recv() chunk as the handshake line.
C35_HandshakeLeavesControl ==
  [][\A n \in DOMAIN hs_wire :
       est_pc[n] = "exchanging" /\ Len(hs_wire'[n]) < Len(hs_wire[n])
         => \A i \in 1..Len(HandshakeChunk(n)) :
              HandshakeChunk(n)[i].rec \notin {"control_request", "control_release"}]_vars

(* ------------- slot model: how often a client hands back ---------------- *)
\* this step is an iteration of KVMClient c's receive_commands that writes
\* return_to_server
ClientSendsReturn(c) ==
  /\ ClientReads(c, "mouse_move")
  /\ Len(c2s'[c]) > Len(c2s[c])
  /\ c2s'[c][Len(c2s'[c])].msg = ReturnMsg

\* C36: a client writes return_to_server only while is_controlling is True,
\* hence at most once for each 'switch' it has received.
C36_ReturnOnlyWhileControlling ==
  [][\A c \in DOMAIN s2c : ClientSendsReturn(c) => is_controlling[c]]_vars

(* ------------- slot model: from one client straight to another ---------- *)
\* this step writes return_to_server to KVM.py connection c
SlotSendsReturn(c) ==
  /\ Len(s2c'[c]) > Len(s2c[c])
  /\ s2c'[c][Len(s2c'[c])].msg = ReturnMsg

\* C37: a switch trigger changes the control target only from LocalControl:
\* active_client never goes from one client to another in one step unless
\* the first client is sent return_to_server.
C37_NoDirectClientToClient ==
  [][(active_client # 0 /\ active_client' # 0 /\ active_client' # active_client)
       => SlotSendsReturn(active_client)]_vars

(* ------------- slot model: the first moves after a handoff -------------- *)
\* the server column at which on_move switches to the client in slot pos
CrossingX(pos) == IF pos = "right" THEN ServerW - 1 ELSE 0

\* C38: a controlled client that reads a mouse_move reporting the server
\* cursor still at the column where it crossed (width - 1 for the 'right'
\* slot, 0 for the 'left' slot; equal widths, exact arithmetic) does not
\* answer with return_to_server.
C38_HandoffStable ==
  [][\A c \in DOMAIN s2c :
       (/\ ServerW = ClientW
        /\ ClientReads(c, "mouse_move")
        /\ is_controlling[c]
        /\ position[c] \in {"right", "left"}
        /\ Decoded(c).x = CrossingX(position[c]))
         => ~ClientSendsReturn(c)]_vars

(* ======================================================================= *)
(*                          Specifications                                 *)
(* ======================================================================= *)
\* KVM.py alone
SlotInit == InitSlot /\ IdleToggle /\ IdleTiny /\ IdleFrame /\ IdleDisc /\ IdleKeys
  /\ IdleLink /\ IdleHs /\ IdleUser
  /\ IdleCoord /\ IdleRace

SpecSlot == SlotInit /\ [][NextSlot]_vars

\* kvm.py alone
ToggleInit == InitToggle /\ IdleSlot /\ IdleTiny /\ IdleFrame /\ IdleDisc /\ IdleKeys
  /\ IdleLink /\ IdleHs /\ IdleUser
  /\ IdleCoord /\ IdleRace

SpecToggle == ToggleInit /\ [][NextToggle]_vars

\* kvm.py with its threads kept running
SpecToggleFair == SpecToggle /\ ToggleFairness

\* tinyKVM.py nodes alone
TinyInit == InitTiny /\ IdleSlot /\ IdleToggle /\ IdleFrame /\ IdleDisc /\ IdleKeys
  /\ IdleLink /\ IdleHs /\ IdleUser
  /\ IdleCoord /\ IdleRace

SpecTiny == TinyInit /\ [][NextTiny]_vars

\* the two newline-framed receive loops alone
FrameInit == InitFrame /\ IdleSlot /\ IdleToggle /\ IdleTiny /\ IdleDisc /\ IdleKeys
  /\ IdleLink /\ IdleHs /\ IdleUser
  /\ IdleCoord /\ IdleRace

SpecFrame == FrameInit /\ [][NextFrame]_vars

\* tinyKVM.py discovery alone
DiscInit == InitDisc /\ IdleSlot /\ IdleToggle /\ IdleTiny /\ IdleFrame /\ IdleKeys
  /\ IdleLink /\ IdleHs /\ IdleUser
  /\ IdleCoord /\ IdleRace

SpecDisc == DiscInit /\ [][NextDisc]_vars

\* tinyKVM.py discovery with the daemon threads of Discovery.__init__ kept
\* running: _send_loop broadcasts again and again, and a datagram on the
\* way to a host is eventually returned by its recvfrom
DiscFairness ==
  /\ \A h \in DiscHosts : WF_vars(SendLoop(h))
  /\ \A h \in DiscHosts : \A src \in DiscHosts :
       WF_vars(Receive(h, Datagram(src, h)))

SpecDiscFair == SpecDisc /\ DiscFairness

\* one key stroke to the receive loops of the three programs
KeysInit == InitKeys /\ IdleSlot /\ IdleToggle /\ IdleTiny /\ IdleDisc
  /\ IdleLink /\ IdleHs /\ IdleUser
  /\ IdleCoord /\ IdleRace

SpecKeys == KeysInit /\ [][NextKeys]_vars

\* duplicated control records at the receive loops of kvm.py and KVM.py
DupInit == InitDup /\ IdleTiny /\ IdleFrame /\ IdleDisc /\ IdleKeys
  /\ IdleLink /\ IdleHs /\ IdleUser
  /\ IdleCoord /\ IdleRace

SpecDup == DupInit /\ [][NextDup]_vars

\* tinyKVM.py Link.__init__ alone
LinkInit == InitLink /\ IdleSlot /\ IdleToggle /\ IdleTiny /\ IdleFrame /\ IdleDisc
  /\ IdleKeys /\ IdleHs /\ IdleUser
  /\ IdleCoord /\ IdleRace

SpecLink == LinkInit /\ [][NextLink]_vars

\* kvm.py establish_connection on both hosts
HsInit == InitHs /\ IdleSlot /\ IdleTiny /\ IdleFrame /\ IdleDisc /\ IdleKeys
  /\ IdleLink /\ IdleUser
  /\ IdleCoord /\ IdleRace

SpecHs == HsInit /\ [][NextHs]_vars

\* KVM.py accept loop with a silent peer among the connections
SilentInit == InitSilent /\ IdleToggle /\ IdleTiny /\ IdleFrame /\ IdleDisc /\ IdleKeys
  /\ IdleLink /\ IdleHs /\ IdleUser
  /\ IdleCoord /\ IdleRace

SpecSilent == SilentInit /\ [][NextSilent]_vars /\ AcceptFairness

\* tinyKVM.py discovery with an outsider on the network
OutsiderInit == InitOutsider /\ IdleSlot /\ IdleToggle /\ IdleTiny /\ IdleFrame /\ IdleKeys
  /\ IdleLink /\ IdleHs /\ IdleUser
  /\ IdleCoord /\ IdleRace

SpecOutsider == OutsiderInit /\ [][NextOutsider]_vars

\* the three programs, one of them running
VariantsInit == SlotInit \/ ToggleInit \/ TinyInit

NextVariants ==
  \/ max_conns > 0 /\ NextSlot
  \/ connected # <<>> /\ NextToggle
  \/ role # <<>> /\ NextTiny

SpecVariants == VariantsInit /\ [][NextVariants]_vars

\* KVM.py from the point where two clients are connected
PairedInit == InitPaired /\ IdleToggle /\ IdleTiny /\ IdleFrame /\ IdleDisc /\ IdleKeys
  /\ IdleLink /\ IdleHs /\ IdleUser
  /\ IdleCoord /\ IdleRace

\* no further connection is made
NextPaired ==
  \/ \E c \in Conns, k \in 1..(2 * MaxInFlight + 1) : ClientReceive(c, k)
  \/ \E c \in Conns : ClientStop(c)
  \/ \E c \in Conns, k \in 1..(2 * MaxInFlight) : HandleClientRecv(c, k)
  \/ \E c \in Conns : HandleClientCleanup(c)
  \/ \E x \in 0..(ServerW - 1) : OnMove(x)
  \/ \E key \in Keys : OnPress(key)
  \/ \E key \in Keys : OnRelease(key)

SpecPaired == PairedInit /\ [][NextPaired]_vars

\* KVM.py with two clients connected and the user's keys as they are held
ChordInit == InitChord /\ IdleToggle /\ IdleTiny /\ IdleFrame /\ IdleDisc /\ IdleKeys
  /\ IdleLink /\ IdleHs
  /\ IdleCoord /\ IdleRace

SpecChord == ChordInit /\ [][NextChord]_vars

\* kvm.py with the user's clicks on the control button counted
ClickInit == InitClick /\ IdleSlot /\ IdleTiny /\ IdleFrame /\ IdleDisc /\ IdleKeys
  /\ IdleLink /\ IdleHs
  /\ IdleCoord /\ IdleRace

SpecClick == ClickInit /\ [][NextClick]_vars

\* a pointer position carried from one screen to another, per program
CoordInit == InitCoord /\ IdleSlot /\ IdleToggle /\ IdleTiny /\ IdleFrame /\ IdleDisc
  /\ IdleKeys /\ IdleLink /\ IdleHs /\ IdleUser /\ IdleRace

SpecCoord == CoordInit /\ [][NextCoord]_vars

\* KVM.py with two clients connected, the writers taken statement by statement
RaceInit == InitRace /\ IdleToggle /\ IdleTiny /\ IdleFrame /\ IdleDisc /\ IdleKeys
  /\ IdleLink /\ IdleHs /\ IdleUser /\ IdleCoord

SpecRace == RaceInit /\ [][NextRace]_vars

\* kvm.py establish_connection with the control button usable meanwhile
HsCtlInit == InitHs /\ IdleSlot /\ IdleTiny /\ IdleFrame /\ IdleDisc /\ IdleKeys
  /\ IdleLink /\ IdleUser /\ IdleCoord /\ IdleRace

SpecHsCtl == HsCtlInit /\ [][NextHsCtl]_vars

====
